---- MODULE Spec2Model ----
(***************************************************************************)
(* State-machine model of the live-capture pipeline of react-audio-waveform *)
(* : the amplitude samplers (useRecordingAmplitudes, the legacy            *)
(* LiveStreamingRecorder, RecordingWaveform) and the timeline canvases that *)
(* draw what they collect.                                                  *)
(*                                                                         *)
(* One behaviour mounts ONE component (comp) and drives it with the events *)
(* the browser and the parent can deliver: a new MediaRecorder prop, pause *)
(* and resume events, the recorder stopping, the prop being withdrawn, the *)
(* 50 ms settle timeout, interval ticks, animation frames, parent          *)
(* re-renders, prop changes and container resizes.  A React commit (render *)
(* + effect clean-ups + effect set-ups, and the re-render a setState inside *)
(* an effect asks for) is one atomic step.                                  *)
(*                                                                         *)
(* Environment assumptions: the canvas' CSS box is the container's box     *)
(* (getBoundingClientRect of the canvas = clientWidth/Height of the        *)
(* container); devicePixelRatio does not change while mounted; assigning   *)
(* canvas.width resets the 2d context transform (HTML canvas semantics).   *)
(***************************************************************************)
EXTENDS Integers, Sequences, FiniteSets, TLC

\* ------------------------------------------------------------------ bounds
\* longest amplitude timeline explored
MaxLen == 3
\* number of MediaRecorder objects (capture sessions) a behaviour creates
MaxSessions == 2

\* ------------------------------------------------------- program constants
\* const minBarHeight = 2 (px)
minBarHeight == 2

\* ------------------------------------------------------------ input sets
\* the components of the repository that own or consume an AmplitudeTimeline
HookComps == {"stack", "ctx", "compound"}
Comps == HookComps \cup {"legacy", "rw"}
\* abstract amplitude levels a tick can push (0 = silence, 1 = full scale)
Levels == {0, 1}
\* container sizes <<clientWidth, clientHeight>>
ContainerSizes == {<<5, 10>>, <<8, 20>>}
\* bar geometry the parent can pass (barWidth, gap); pitch 2 and 4
BarConfigs == {[width |-> 1, gap |-> 1], [width |-> 3, gap |-> 1]}
DevicePixelRatios == {1, 2}

\* ---------------------------------------------------------------- helpers
Max(a, b) == IF a >= b THEN a ELSE b
Min(a, b) == IF a <= b THEN a ELSE b
IsPrefix(s, t) == Len(s) <= Len(t) /\ SubSeq(t, 1, Len(s)) = s

VARIABLES
    comp,                  \* which component is mounted
    growWidth,             \* prop of the stack canvas
    dpr,                   \* window.devicePixelRatio
    mediaRecorder,         \* prop: 0 = null, k > 0 = the k-th MediaRecorder object
    sessionCount,          \* MediaRecorder objects created so far
    recState,              \* mediaRecorder.state of the latest recorder
    analyserReady,         \* analyserRef.current and dataArrayRef.current are set
    container,             \* <<clientWidth, clientHeight>>
    barConfig,             \* bar geometry prop
    amplitudeDataRef,      \* the AmplitudeTimeline (ref)
    amplitudes,            \* hook state: the published snapshot
    samplingIntervalRef,   \* TRUE = holds an interval id
    timers,                \* number of live setInterval timers
    timeoutId,             \* TRUE = the settle timeout is pending
    prevMediaRecorderRef,  \* hook: last recorder seen by the reset effect
    closureIsPaused,       \* legacy: `let isPaused` of the effect closure
    isRecording,           \* context value seen by the canvas at its last render
    isPaused,              \* context value seen by the canvas at its last render
    canvas,                \* bitmap size, logical size, transform, what is drawn
    prevCanvasWidthRef,    \* stack canvas: running maximum width
    animationRef,          \* TRUE = holds a frame-request id
    rafs,                  \* number of pending requestAnimationFrame callbacks
    draws,                 \* draw-routine invocations made by the last step
    scrollLeft,            \* scroll container: scrollLeft
    scrollWidth,           \* scroll container: scrollWidth (laid-out content)
    isAutoScrollingRef,    \* isAutoScrollingRef.current
    listeners,             \* recorders carrying this component's pause/resume
                           \* listeners
    blob,                  \* AudioWaveform: the blob prop, 0 = null
    peaks,                 \* AudioWaveform: 0 = null, b = the peaks of blob b
    error,                 \* AudioWaveform: a decode error is held
    blobRef,               \* AudioWaveform: blobRef.current, 0 = null
    phase,                 \* "mounted", or "fallback" once render has thrown
    decodes,               \* the decodeAudioBlob calls made so far
    liveRun,               \* the call whose effect clean-up is registered, or 0
    callsSame,             \* calls made by this instance for the present blob
    dec,                   \* one call of decode: its input and its result
    seek,                  \* playhead mapping: duration, width, time, x
    amp,                   \* sampler arithmetic: the byte buffer and the
                           \* timeline of the values computed from it
    drawCall,              \* one draw of a bar renderer: its inputs, the
                           \* pitch it used and the bars it drew
    rec,                   \* useAudioRecorder: its state and its recorder
    live,                  \* LiveRecorder: the analyser, the frame loop
    clock                  \* the sampler's timers against elapsed time

envVars == <<comp, growWidth, dpr, mediaRecorder, sessionCount, recState,
             analyserReady, container, barConfig>>
samplerVars == <<amplitudeDataRef, amplitudes, samplingIntervalRef, timers,
                 timeoutId, prevMediaRecorderRef, closureIsPaused>>
canvasVars == <<isRecording, isPaused, canvas, prevCanvasWidthRef,
                animationRef, rafs, draws>>
scrollVars == <<scrollLeft, scrollWidth, isAutoScrollingRef>>
\* the variables the capture machine (Spec) does not look at
decodeVars == <<blob, peaks, error, blobRef, phase, decodes, liveRun,
                callsSame>>
\* the variables of the machines further down
laterVars == <<seek, amp, drawCall, rec, live, clock>>
otherVars == <<scrollVars, decodeVars, dec, laterVars>>
vars == <<envVars, samplerVars, canvasVars, otherVars, listeners>>

\* ------------------------------------------------------------ the samplers
\* a plausible slip: the ref is assigned the new sample instead of pushed to
pushAmplitudeOverwrite(data, v) == <<v>>

\* amplitudeDataRef.current.push(amplitude)
pushAmplitude(data, v) == Append(data, v)

\* a plausible slip: the interval is created without looking at the ref
startSamplingUnguarded(ref, n) == [ref |-> TRUE, timers |-> n + 1]

\* startSampling: create the interval timer unless the ref already holds one
startSampling(ref, n) ==
    IF ~ref THEN [ref |-> TRUE, timers |-> n + 1]
            ELSE [ref |-> ref, timers |-> n]

\* a plausible slip: the timer is cleared but the ref keeps its id
stopSamplingKeepRef(ref, n) ==
    IF ref THEN [ref |-> ref, timers |-> n - 1]
           ELSE [ref |-> ref, timers |-> n]

\* stopSampling: clear the timer the ref holds, if any
stopSampling(ref, n) ==
    IF ref THEN [ref |-> FALSE, timers |-> n - 1]
           ELSE [ref |-> ref, timers |-> n]

\* RecordingWaveform's settle timeout: the ref is assigned a new interval
\* without looking at what it holds
rwStartInterval(ref, n) == [ref |-> TRUE, timers |-> n + 1]

\* isRecording / isPaused as the hook derives them at render time
hookIsRecording(m, st) == m # 0 /\ st = "recording"
hookIsPaused(m, st) == m # 0 /\ st = "paused"

\* -------------------------------------------------------------- the canvas
\* the <canvas> element before any draw (HTML default bitmap 300 x 150)
BlankCanvas ==
    [width |-> 300, height |-> 150,
     logicalWidth |-> 0, logicalHeight |-> 0, xform |-> 1,
     kind |-> "none", bars |-> 0, idx |-> {}, shown |-> <<>>, heights |-> {}]

\* a plausible slip: a bitmap resize that would leave the transform alone
setCanvasSizeKeepTransform(cv, w, h) == [cv EXCEPT !.width = w, !.height = h]

\* canvas.width = w; canvas.height = h  (resets the context transform)
setCanvasSize(cv, w, h) == [cv EXCEPT !.width = w, !.height = h, !.xform = 1]

\* ctx.scale(d, d) multiplies the current transform
ctxScale(cv, d) == [cv EXCEPT !.xform = @ * d]

\* barHeightScale in hundredths: DEFAULT_WAVEFORM_APPEARANCE.barHeightScale
\* (0.95) in the stack canvas, 0.9 everywhere else
barHeightScale100 == IF comp = "stack" THEN 95 ELSE 90

\* amplitudes[i] || 0 for a 0-based index i
amplitudeAt(shown, i) ==
    IF i >= 0 /\ i < Len(shown) THEN shown[i + 1] ELSE 0

\* Math.max(minBarHeight, amplitude * height * barHeightScale), in 1/100 px
barHeight100(a, lh) == Max(minBarHeight * 100, a * lh * barHeightScale100)

\* the bar heights (1/100 px) a draw passes to roundRect
BarHeights(lh, kind, bars, idx, shown) ==
    IF kind = "idle"
    THEN (IF bars > 0 THEN {minBarHeight * 100} ELSE {})
    ELSE {barHeight100(amplitudeAt(shown, i), lh) : i \in idx}

\* size the bitmap for logical size lw x lh, scale, clear and draw `bars` bars
\* reading the source indices idx of the data `shown`
Paint(cv, lw, lh, d, kind, bars, idx, shown) ==
    [ctxScale(setCanvasSize(cv, lw * d, lh * d), d) EXCEPT
        !.logicalWidth = lw, !.logicalHeight = lh,
        !.kind = kind, !.bars = bars, !.idx = idx, !.shown = shown,
        !.heights = BarHeights(lh, kind, bars, idx, shown)]

totalBarWidth(bc) == bc.width + bc.gap

\* indices (0-based) read by a one-bar-per-sample loop
AllIndices(amps) == {i - 1 : i \in 1..Len(amps)}

\* fixed mode of the stack canvas: amplitudeIndex of slot i
fixedIndex(i, len, barsCount) == Min((i * len) \div barsCount, len - 1)

FixedIndices(len, barsCount) ==
    {fixedIndex(i - 1, len, barsCount) : i \in 1..barsCount}

\* canvas-side state threaded through the draws of one step
K0 == [canvas |-> canvas, prev |-> prevCanvasWidthRef,
       aref |-> animationRef, rafs |-> rafs, draws |-> 0]

\* a plausible slip: a clean-up that forgets cancelAnimationFrame
CancelFrameForgotten(k) == k

\* cancelAnimationFrame(animationRef.current) when the ref is set
CancelFrame(k) ==
    IF k.aref THEN [k EXCEPT !.aref = FALSE, !.rafs = @ - 1] ELSE k

\* animationRef.current = requestAnimationFrame(draw)
RequestFrame(k) == [k EXCEPT !.aref = TRUE, !.rafs = @ + 1]

\* a plausible slip: the running maximum is not consulted
stackCanvasWidthNoRunningMax(len, bc, cw, prev, grow) ==
    IF grow THEN (IF len > 0 THEN len * totalBarWidth(bc) ELSE cw) ELSE cw

\* growing-mode width of the stack canvas
stackCanvasWidth(len, bc, cw, prev, grow) ==
    LET requiredWidth == len * totalBarWidth(bc)
        calculatedWidth == IF len > 0 THEN requiredWidth ELSE cw
    IN IF grow THEN Max(calculatedWidth, prev) ELSE cw

\* LiveStreamingRecorderCanvas.drawWaveform of the stack recorder
StackDrawWaveform(k, amps, isRec, size, bc) ==
    IF isRec \/ Len(amps) > 0
    THEN LET canvasWidth ==
                 stackCanvasWidth(Len(amps), bc, size[1], k.prev, growWidth)
             barsCount == canvasWidth \div totalBarWidth(bc)
         IN [k EXCEPT
               !.prev = IF growWidth THEN canvasWidth ELSE @,
               !.draws = @ + 1,
               !.canvas =
                   IF growWidth
                   THEN Paint(@, canvasWidth, size[2], dpr, "data",
                              Len(amps), AllIndices(amps), amps)
                   ELSE Paint(@, canvasWidth, size[2], dpr, "data",
                              barsCount, FixedIndices(Len(amps), barsCount),
                              amps)]
    ELSE [k EXCEPT !.draws = @ + 1]

\* a plausible slip: the idle bar count without the trailing-gap allowance
idleBarCountNoGap(w, bc) == w \div totalBarWidth(bc)

\* barCount of the idle state: Math.floor((width + gap) / totalBarWidth)
idleBarCount(w, bc) == (w + bc.gap) \div totalBarWidth(bc)

\* LiveStreamingRecorderCanvas.drawWaveform of the context canvas
\* (showIdleState at its default, true)
CtxDrawWaveform(k, amps, isRec, size, bc) ==
    IF isRec \/ Len(amps) > 0
    THEN LET canvasWidth == Max(Len(amps) * totalBarWidth(bc), size[1])
         IN [k EXCEPT
               !.draws = @ + 1,
               !.canvas = Paint(@, canvasWidth, size[2], dpr, "data",
                                Len(amps), AllIndices(amps), amps)]
    ELSE [k EXCEPT
            !.draws = @ + 1,
            !.canvas = Paint(@, size[1], size[2], dpr, "idle",
                             idleBarCount(size[1], bc),
                             {}, <<>>)]

\* draw() of the recording effect of the compound canvas, and of the legacy
\* LiveStreamingRecorder and RecordingWaveform (same width computation)
TimelineDraw(k, amps, size, bc) ==
    LET canvasWidth == Max(Len(amps) * totalBarWidth(bc), size[1])
    IN [k EXCEPT
          !.draws = @ + 1,
          !.canvas = Paint(@, canvasWidth, size[2], dpr, "data",
                           Len(amps), AllIndices(amps), amps)]

\* stopped-state effect of the compound canvas
CompoundStopped(k, amps, size, bc) ==
    IF Len(amps) > 0
    THEN TimelineDraw(k, amps, size, bc)
    ELSE [k EXCEPT
            !.draws = @ + 1,
            !.canvas = Paint(@, size[1], size[2], dpr, "idle",
                             size[1] \div totalBarWidth(bc), {}, <<>>)]

\* stopped-state effect of the legacy LiveStreamingRecorder
\* (showIdleState at its default, true)
LegacyStopped(k, amps, size, bc) ==
    IF Len(amps) > 0
    THEN TimelineDraw(k, amps, size, bc)
    ELSE [k EXCEPT
            !.draws = @ + 1,
            !.canvas = Paint(@, size[1], size[2], dpr, "idle",
                             idleBarCount(size[1], bc),
                             {}, <<>>)]

\* RecordingWaveform's reset effect: clearRect only, the bitmap size and the
\* transform stay as the last draw left them
RwClear(k) ==
    [k EXCEPT !.canvas = [@ EXCEPT !.kind = "cleared", !.bars = 0,
                                   !.idx = {}, !.shown = <<>>,
                                   !.heights = {}]]

\* ------------------------------------------------ commits of the canvases
\* One commit of the stack canvas.  oldAmps/oldRec/oldPau are the values of
\* the previous render, ampsNew says the amplitudes array is a new object,
\* propChanged that `appearance` changed.  Effects run in declaration order:
\* the width-reset effect, the ResizeObserver effect, the cadence effect;
\* a new observer then delivers its first notification.
StackCommit(k, oldAmps, newAmps, ampsNew, oldRec, oldPau, r, p, propChanged, size, bc) ==
    LET drawChanged == ampsNew \/ r # oldRec \/ propChanged
        cadenceChanged == drawChanged \/ p # oldPau
        k1 == IF cadenceChanged /\ oldRec /\ ~oldPau THEN CancelFrame(k) ELSE k
        k2 == IF Len(newAmps) # Len(oldAmps) /\ Len(newAmps) = 0
              THEN [k1 EXCEPT !.prev = 0] ELSE k1
        k3 == IF ~cadenceChanged THEN k2
              ELSE IF r /\ ~p
                   THEN RequestFrame(StackDrawWaveform(k2, newAmps, r, size, bc))
                   ELSE StackDrawWaveform(k2, newAmps, r, size, bc)
    IN IF drawChanged /\ ~r
       THEN StackDrawWaveform(k3, newAmps, r, size, bc)
       ELSE k3

\* One commit of the context canvas: the cadence effect, then the
\* "re-render when amplitudes change" effect.
CtxCommit(k, oldAmps, newAmps, ampsNew, oldRec, oldPau, r, p, propChanged, size, bc) ==
    LET drawChanged == ampsNew \/ r # oldRec \/ propChanged
        cadenceChanged == drawChanged \/ p # oldPau
        k1 == IF cadenceChanged /\ oldRec /\ ~oldPau THEN CancelFrame(k) ELSE k
        k2 == IF ~cadenceChanged THEN k1
              ELSE IF r /\ ~p
                   THEN RequestFrame(CtxDrawWaveform(k1, newAmps, r, size, bc))
                   ELSE CtxDrawWaveform(k1, newAmps, r, size, bc)
    IN IF drawChanged /\ ~r
       THEN CtxDrawWaveform(k2, newAmps, r, size, bc)
       ELSE k2

\* One commit of the compound canvas.  With a barConfig prop barStyle is a new
\* object on every render, so both effects run again on every commit.
CompoundCommit(k, oldAmps, newAmps, ampsNew, oldRec, oldPau, r, p, propChanged, size, bc) ==
    LET k1 == IF oldRec THEN CancelFrame(k) ELSE k
    IN IF r THEN RequestFrame(TimelineDraw(k1, newAmps, size, bc))
            ELSE CompoundStopped(k1, newAmps, size, bc)

HookCanvasCommit(k, oldAmps, newAmps, ampsNew, oldRec, oldPau, r, p, propChanged, size, bc) ==
    CASE comp = "stack" ->
           StackCommit(k, oldAmps, newAmps, ampsNew, oldRec, oldPau, r, p,
                       propChanged, size, bc)
      [] comp = "ctx" ->
           CtxCommit(k, oldAmps, newAmps, ampsNew, oldRec, oldPau, r, p,
                     propChanged, size, bc)
      [] OTHER ->
           CompoundCommit(k, oldAmps, newAmps, ampsNew, oldRec, oldPau, r, p,
                          propChanged, size, bc)

\* the frame callback `draw` of each component (the id that fired is spent)
FrameDraw(k) ==
    CASE comp = "stack" ->
           RequestFrame(StackDrawWaveform(k, amplitudes, isRecording,
                                          container, barConfig))
      [] comp = "ctx" ->
           RequestFrame(CtxDrawWaveform(k, amplitudes, isRecording,
                                        container, barConfig))
      [] comp = "compound" ->
           RequestFrame(TimelineDraw(k, amplitudes, container, barConfig))
      [] comp = "legacy" ->
           IF closureIsPaused
           THEN RequestFrame(k)
           ELSE RequestFrame(TimelineDraw(k, amplitudeDataRef, container,
                                          barConfig))
      [] OTHER ->
           RequestFrame(TimelineDraw(k, amplitudeDataRef, container,
                                     barConfig))

KBlank == [canvas |-> BlankCanvas, prev |-> 0, aref |-> FALSE, rafs |-> 0,
           draws |-> 0]

\* the mount commit with mediaRecorder = null
MountK(c, size, bc) ==
    CASE c = "stack" ->
           StackDrawWaveform(StackDrawWaveform(KBlank, <<>>, FALSE, size, bc),
                             <<>>, FALSE, size, bc)
      [] c = "ctx" ->
           CtxDrawWaveform(CtxDrawWaveform(KBlank, <<>>, FALSE, size, bc),
                           <<>>, FALSE, size, bc)
      [] c = "compound" -> CompoundStopped(KBlank, <<>>, size, bc)
      [] c = "legacy" -> LegacyStopped(KBlank, <<>>, size, bc)
      [] OTHER -> RwClear(KBlank)

SetK(k) ==
    /\ canvas' = k.canvas
    /\ prevCanvasWidthRef' = k.prev
    /\ animationRef' = k.aref
    /\ rafs' = k.rafs
    /\ draws' = k.draws

NoDraw ==
    /\ UNCHANGED <<isRecording, isPaused, canvas, prevCanvasWidthRef,
                   animationRef, rafs>>
    /\ draws' = 0

\* the scroll container at mount, as the capture machine leaves it
ScrollRest ==
    /\ scrollLeft = 0
    /\ scrollWidth = 0
    /\ isAutoScrollingRef = TRUE

\* AudioWaveform mounted without a blob
DecodeRest ==
    /\ blob = 0
    /\ peaks = 0
    /\ error = FALSE
    /\ blobRef = 0
    /\ phase = "mounted"
    /\ decodes = <<>>
    /\ liveRun = 0
    /\ callsSame = 0

\* no call of decode
DownsampleRest ==
    dec = [samples |-> <<>>, n |-> 1, out |-> <<>>, done |-> FALSE]

\* no playhead
SeekRest == seek = [stage |-> "none"]

\* no buffer read
AmpRest == amp = [dataArray |-> <<>>, timeline |-> <<>>]

\* no draw
BarsRest == drawCall = [stage |-> "none"]

\* no recorder hook
RecRest == rec = [stage |-> "none"]

\* no LiveRecorder
LiveRest == live = [stage |-> "none"]

\* no timed sampler
ClockRest == clock = [stage |-> "none"]

\* the machines further down at rest, but for the one named
LaterRestExcept(v) ==
    /\ IF v # "seek" THEN SeekRest ELSE TRUE
    /\ IF v # "amp" THEN AmpRest ELSE TRUE
    /\ IF v # "bars" THEN BarsRest ELSE TRUE
    /\ IF v # "rec" THEN RecRest ELSE TRUE
    /\ IF v # "live" THEN LiveRest ELSE TRUE
    /\ IF v # "clock" THEN ClockRest ELSE TRUE

\* ... and left alone by a step
LaterUnchangedExcept(v) ==
    /\ IF v # "seek" THEN UNCHANGED seek ELSE TRUE
    /\ IF v # "amp" THEN UNCHANGED amp ELSE TRUE
    /\ IF v # "bars" THEN UNCHANGED drawCall ELSE TRUE
    /\ IF v # "rec" THEN UNCHANGED rec ELSE TRUE
    /\ IF v # "live" THEN UNCHANGED live ELSE TRUE
    /\ IF v # "clock" THEN UNCHANGED clock ELSE TRUE

LaterRest == LaterRestExcept("")

\* the capture components at rest: RecordingWaveform mounted, no recorder
CaptureRest ==
    /\ comp = "rw"
    /\ growWidth = TRUE
    /\ dpr = 1
    /\ mediaRecorder = 0
    /\ sessionCount = 0
    /\ recState = "inactive"
    /\ analyserReady = FALSE
    /\ container = <<10, 10>>
    /\ barConfig = [width |-> 7, gap |-> 1]
    /\ amplitudeDataRef = <<>>
    /\ amplitudes = <<>>
    /\ samplingIntervalRef = FALSE
    /\ timers = 0
    /\ timeoutId = FALSE
    /\ prevMediaRecorderRef = 0
    /\ closureIsPaused = FALSE
    /\ isRecording = FALSE
    /\ isPaused = FALSE
    /\ canvas = BlankCanvas
    /\ prevCanvasWidthRef = 0
    /\ animationRef = FALSE
    /\ rafs = 0
    /\ draws = 0
    /\ listeners = {}

\* what the machines further down never change
earlierVars == <<envVars, samplerVars, canvasVars, listeners, scrollVars,
                 decodeVars, dec>>

\* ... and where they start
EarlierRest == CaptureRest /\ ScrollRest /\ DecodeRest /\ DownsampleRest

OtherInit == ScrollRest /\ DecodeRest /\ DownsampleRest /\ LaterRest

Init ==
    /\ comp \in Comps
    /\ growWidth \in (IF comp = "stack" THEN BOOLEAN ELSE {TRUE})
    /\ dpr \in DevicePixelRatios
    /\ mediaRecorder = 0
    /\ sessionCount = 0
    /\ recState = "inactive"
    /\ analyserReady = FALSE
    /\ container \in ContainerSizes
    /\ barConfig \in BarConfigs
    /\ amplitudeDataRef = <<>>
    /\ amplitudes = <<>>
    /\ samplingIntervalRef = FALSE
    /\ timers = 0
    /\ timeoutId = FALSE
    /\ prevMediaRecorderRef = 0
    /\ closureIsPaused = FALSE
    /\ isRecording = FALSE
    /\ isPaused = FALSE
    /\ canvas = MountK(comp, container, barConfig).canvas
    /\ prevCanvasWidthRef = 0
    /\ animationRef = FALSE
    /\ rafs = 0
    /\ draws = MountK(comp, container, barConfig).draws
    /\ OtherInit
    /\ listeners = {}

\* ---------------------------------------------------------------- actions
\* clean-up of the sampling effect of the hook and of the legacy recorder
\* (it exists only when the effect ran with a recorder)
SamplerCleanup ==
    IF mediaRecorder # 0
    THEN stopSampling(samplingIntervalRef, timers)
    ELSE [ref |-> samplingIntervalRef, timers |-> timers]

\* clean-up of the frame loop of the legacy recorder and RecordingWaveform
LoopCleanup(k) == IF mediaRecorder # 0 THEN CancelFrame(k) ELSE k

\* the sampling effect is cleaned up and run again with recorder m: the
\* clean-up removes handlePause / handleResume from the recorder of its
\* closure, the new run adds them to m (RecordingWaveform adds none)
EffectListeners(m) ==
    (listeners \ {mediaRecorder})
        \cup (IF m # 0 /\ comp # "rw" THEN {m} ELSE {})

\* The parent passes mediaRecorder = m (whose state is st): the commit of
\* that render, and for the hook the re-render its reset effect asks for.
SetMediaRecorder(m, st) ==
    /\ UNCHANGED otherVars
    /\ listeners' = EffectListeners(m)
    /\ mediaRecorder' = m
    /\ recState' = st
    /\ analyserReady' = FALSE
    /\ UNCHANGED <<comp, growWidth, dpr, container, barConfig>>
    /\ samplingIntervalRef' = SamplerCleanup.ref
    /\ timers' = SamplerCleanup.timers
    /\ timeoutId' = (m # 0)
    /\ CASE comp \in HookComps ->
              LET r == hookIsRecording(m, st)
                  p == hookIsPaused(m, st)
                  reset == m # prevMediaRecorderRef
                  k1 == HookCanvasCommit(K0, amplitudes, amplitudes, FALSE,
                                         isRecording, isPaused, r, p, FALSE,
                                         container, barConfig)
                  k2 == IF reset
                        THEN HookCanvasCommit(k1, amplitudes, <<>>, TRUE,
                                              r, p, r, p, FALSE,
                                              container, barConfig)
                        ELSE k1
              IN /\ amplitudeDataRef' =
                        IF reset THEN <<>> ELSE amplitudeDataRef
                 /\ amplitudes' = IF reset THEN <<>> ELSE amplitudes
                 /\ prevMediaRecorderRef' = m
                 /\ UNCHANGED closureIsPaused
                 /\ isRecording' = r
                 /\ isPaused' = p
                 /\ SetK(k2)
         [] comp = "legacy" ->
              /\ amplitudeDataRef' = IF m # 0 THEN <<>> ELSE amplitudeDataRef
              /\ closureIsPaused' = IF m # 0 THEN FALSE ELSE closureIsPaused
              /\ UNCHANGED <<amplitudes, prevMediaRecorderRef, isRecording,
                             isPaused>>
              /\ SetK(IF m = 0
                      THEN LegacyStopped(LoopCleanup(K0), amplitudeDataRef,
                                         container, barConfig)
                      ELSE LoopCleanup(K0))
         [] OTHER ->
              /\ amplitudeDataRef' = <<>>
              /\ UNCHANGED <<amplitudes, prevMediaRecorderRef, closureIsPaused,
                             isRecording, isPaused>>
              /\ SetK(IF m = 0 THEN RwClear(LoopCleanup(K0))
                               ELSE LoopCleanup(K0))

\* a new capture session: the parent passes a MediaRecorder it has started
NewSession ==
    /\ sessionCount < MaxSessions
    /\ sessionCount' = sessionCount + 1
    /\ SetMediaRecorder(sessionCount + 1, "recording")

\* recorder.stop(): the recorder becomes inactive; no component listens
RecorderStop ==
    /\ UNCHANGED <<otherVars, listeners>>
    /\ mediaRecorder # 0
    /\ recState \in {"recording", "paused"}
    /\ recState' = "inactive"
    /\ UNCHANGED <<comp, growWidth, dpr, mediaRecorder, sessionCount,
                   analyserReady, container, barConfig>>
    /\ UNCHANGED samplerVars
    /\ NoDraw

\* the session ends: the parent withdraws the stopped recorder
Withdraw ==
    /\ mediaRecorder # 0
    /\ recState = "inactive"
    /\ UNCHANGED sessionCount
    /\ SetMediaRecorder(0, "inactive")

\* the recorder's pause event and the handlePause listeners
Pause ==
    /\ UNCHANGED <<otherVars, listeners>>
    /\ mediaRecorder # 0
    /\ recState = "recording"
    /\ recState' = "paused"
    /\ UNCHANGED <<comp, growWidth, dpr, mediaRecorder, sessionCount,
                   analyserReady, container, barConfig>>
    /\ UNCHANGED <<amplitudeDataRef, amplitudes, timeoutId,
                   prevMediaRecorderRef>>
    /\ IF mediaRecorder \notin listeners
       THEN UNCHANGED <<samplingIntervalRef, timers, closureIsPaused>>
       ELSE /\ samplingIntervalRef' =
                   stopSampling(samplingIntervalRef, timers).ref
            /\ timers' = stopSampling(samplingIntervalRef, timers).timers
            /\ closureIsPaused' =
                   IF comp = "legacy" THEN TRUE ELSE closureIsPaused
    /\ NoDraw

\* the recorder's resume event and the handleResume listeners
Resume ==
    /\ UNCHANGED <<otherVars, listeners>>
    /\ mediaRecorder # 0
    /\ recState = "paused"
    /\ recState' = "recording"
    /\ UNCHANGED <<comp, growWidth, dpr, mediaRecorder, sessionCount,
                   analyserReady, container, barConfig>>
    /\ UNCHANGED <<amplitudeDataRef, amplitudes, timeoutId,
                   prevMediaRecorderRef>>
    /\ IF mediaRecorder \notin listeners
       THEN UNCHANGED <<samplingIntervalRef, timers, closureIsPaused>>
       ELSE /\ samplingIntervalRef' =
                   startSampling(samplingIntervalRef, timers).ref
            /\ timers' = startSampling(samplingIntervalRef, timers).timers
            /\ closureIsPaused' =
                   IF comp = "legacy" THEN FALSE ELSE closureIsPaused
    /\ NoDraw

\* the 50 ms settle timeout fires
SettleTimeout ==
    /\ UNCHANGED <<otherVars, listeners>>
    /\ timeoutId
    /\ timeoutId' = FALSE
    /\ UNCHANGED envVars
    /\ UNCHANGED <<amplitudeDataRef, amplitudes, prevMediaRecorderRef,
                   closureIsPaused, isRecording, isPaused>>
    /\ LET t == IF comp = "rw"
                THEN rwStartInterval(samplingIntervalRef, timers)
                ELSE startSampling(samplingIntervalRef, timers)
       IN /\ samplingIntervalRef' = t.ref
          /\ timers' = t.timers
    /\ IF comp \in HookComps
       THEN UNCHANGED <<canvas, prevCanvasWidthRef, animationRef, rafs>>
            /\ draws' = 0
       ELSE SetK(FrameDraw(K0))

\* the analysis node and its buffer become available
AnalyserSetup ==
    /\ UNCHANGED <<otherVars, listeners>>
    /\ mediaRecorder # 0
    /\ ~analyserReady
    /\ analyserReady' = TRUE
    /\ UNCHANGED <<comp, growWidth, dpr, mediaRecorder, sessionCount,
                   recState, container, barConfig>>
    /\ UNCHANGED samplerVars
    /\ NoDraw

\* an interval tick: sampleAmplitude
sampleAmplitude ==
    /\ UNCHANGED <<otherVars, listeners>>
    /\ timers > 0
    /\ UNCHANGED envVars
    /\ UNCHANGED <<samplingIntervalRef, timers, timeoutId,
                   prevMediaRecorderRef, closureIsPaused>>
    /\ IF ~analyserReady
       THEN UNCHANGED <<amplitudeDataRef, amplitudes>> /\ NoDraw
       ELSE /\ Len(amplitudeDataRef) < MaxLen
            /\ \E v \in Levels :
                 LET data == pushAmplitude(amplitudeDataRef, v)
                     r == hookIsRecording(mediaRecorder, recState)
                     p == hookIsPaused(mediaRecorder, recState)
                 IN /\ amplitudeDataRef' = data
                    /\ IF comp \in HookComps
                       THEN /\ amplitudes' = data
                            /\ isRecording' = r
                            /\ isPaused' = p
                            /\ SetK(HookCanvasCommit(K0, amplitudes, data,
                                        TRUE, isRecording, isPaused, r, p,
                                        FALSE, container, barConfig))
                       ELSE UNCHANGED amplitudes /\ NoDraw

\* an animation frame: one pending callback runs
Frame ==
    /\ UNCHANGED <<otherVars, listeners>>
    /\ rafs > 0
    /\ UNCHANGED envVars
    /\ UNCHANGED samplerVars
    /\ UNCHANGED <<isRecording, isPaused>>
    /\ SetK(FrameDraw([K0 EXCEPT !.rafs = @ - 1]))

\* the parent re-renders (context consumers re-render with it)
Render ==
    /\ UNCHANGED <<otherVars, listeners>>
    /\ comp \in HookComps
    /\ UNCHANGED envVars
    /\ UNCHANGED samplerVars
    /\ isRecording' = hookIsRecording(mediaRecorder, recState)
    /\ isPaused' = hookIsPaused(mediaRecorder, recState)
    /\ SetK(HookCanvasCommit(K0, amplitudes, amplitudes, FALSE,
                             isRecording, isPaused,
                             hookIsRecording(mediaRecorder, recState),
                             hookIsPaused(mediaRecorder, recState),
                             FALSE, container, barConfig))

\* the sampleInterval prop changes: the sampling effect is cleaned up and
\* run again
ChangeSampleInterval ==
    /\ UNCHANGED otherVars
    /\ listeners' = EffectListeners(mediaRecorder)
    /\ UNCHANGED envVars
    /\ UNCHANGED <<amplitudes, prevMediaRecorderRef>>
    /\ samplingIntervalRef' = SamplerCleanup.ref
    /\ timers' = SamplerCleanup.timers
    /\ timeoutId' = (mediaRecorder # 0)
    /\ IF comp \in HookComps
       THEN /\ UNCHANGED <<amplitudeDataRef, closureIsPaused>>
            /\ isRecording' = hookIsRecording(mediaRecorder, recState)
            /\ isPaused' = hookIsPaused(mediaRecorder, recState)
            /\ SetK(HookCanvasCommit(K0, amplitudes, amplitudes, FALSE,
                                     isRecording, isPaused,
                                     hookIsRecording(mediaRecorder, recState),
                                     hookIsPaused(mediaRecorder, recState),
                                     FALSE, container, barConfig))
       ELSE /\ amplitudeDataRef' =
                   IF mediaRecorder # 0 THEN <<>> ELSE amplitudeDataRef
            /\ closureIsPaused' =
                   IF mediaRecorder # 0 THEN FALSE ELSE closureIsPaused
            /\ UNCHANGED <<isRecording, isPaused>>
            /\ SetK(LoopCleanup(K0))

\* the bar geometry prop changes (appearance / barConfig)
ChangeBarConfig ==
    /\ UNCHANGED otherVars
    /\ listeners' = IF comp \in HookComps THEN listeners
                                          ELSE EffectListeners(mediaRecorder)
    /\ comp # "rw"
    /\ \E bc \in BarConfigs \ {barConfig} :
         /\ barConfig' = bc
         /\ UNCHANGED <<comp, growWidth, dpr, mediaRecorder, sessionCount,
                        recState, analyserReady, container>>
         /\ UNCHANGED <<amplitudes, prevMediaRecorderRef>>
         /\ IF comp \in HookComps
            THEN /\ UNCHANGED <<amplitudeDataRef, samplingIntervalRef, timers,
                                timeoutId, closureIsPaused>>
                 /\ isRecording' = hookIsRecording(mediaRecorder, recState)
                 /\ isPaused' = hookIsPaused(mediaRecorder, recState)
                 /\ SetK(HookCanvasCommit(K0, amplitudes, amplitudes, FALSE,
                             isRecording, isPaused,
                             hookIsRecording(mediaRecorder, recState),
                             hookIsPaused(mediaRecorder, recState),
                             TRUE, container, bc))
            ELSE /\ samplingIntervalRef' = SamplerCleanup.ref
                 /\ timers' = SamplerCleanup.timers
                 /\ timeoutId' = (mediaRecorder # 0)
                 /\ amplitudeDataRef' =
                        IF mediaRecorder # 0 THEN <<>> ELSE amplitudeDataRef
                 /\ closureIsPaused' =
                        IF mediaRecorder # 0 THEN FALSE ELSE closureIsPaused
                 /\ UNCHANGED <<isRecording, isPaused>>
                 /\ SetK(IF mediaRecorder = 0
                         THEN LegacyStopped(K0, amplitudeDataRef, container, bc)
                         ELSE LoopCleanup(K0))

\* clearAmplitudes() of the hook's return value / of the legacy ref handle
clearAmplitudes ==
    /\ UNCHANGED <<otherVars, listeners>>
    /\ comp # "rw"
    /\ UNCHANGED envVars
    /\ UNCHANGED <<samplingIntervalRef, timers, timeoutId,
                   prevMediaRecorderRef, closureIsPaused>>
    /\ amplitudeDataRef' = <<>>
    /\ IF comp \in HookComps
       THEN /\ amplitudes' = <<>>
            /\ isRecording' = hookIsRecording(mediaRecorder, recState)
            /\ isPaused' = hookIsPaused(mediaRecorder, recState)
            /\ SetK(HookCanvasCommit(K0, amplitudes, <<>>, TRUE,
                                     isRecording, isPaused,
                                     hookIsRecording(mediaRecorder, recState),
                                     hookIsPaused(mediaRecorder, recState),
                                     FALSE, container, barConfig))
       ELSE UNCHANGED amplitudes /\ NoDraw

\* the container is resized; the stack canvas' ResizeObserver redraws when
\* the canvas is not recording
Resize ==
    \E size \in ContainerSizes \ {container} :
        /\ UNCHANGED <<otherVars, listeners>>
        /\ container' = size
        /\ UNCHANGED <<comp, growWidth, dpr, mediaRecorder, sessionCount,
                       recState, analyserReady, barConfig>>
        /\ UNCHANGED samplerVars
        /\ UNCHANGED <<isRecording, isPaused>>
        /\ SetK(IF comp = "stack" /\ ~isRecording
                THEN StackDrawWaveform(K0, amplitudes, isRecording, size,
                                       barConfig)
                ELSE K0)

Next ==
    \/ NewSession
    \/ RecorderStop
    \/ Withdraw
    \/ Pause
    \/ Resume
    \/ SettleTimeout
    \/ AnalyserSetup
    \/ sampleAmplitude
    \/ Frame
    \/ Render
    \/ ChangeSampleInterval
    \/ ChangeBarConfig
    \/ clearAmplitudes
    \/ Resize

Spec == Init /\ [][Next]_vars

\* ======================================================= scroll controller
\* The scroll container of a growing canvas: RecordingWaveform, the compound
\* canvas of live-streaming-recorder (autoScroll at its default, true) and the
\* stack canvas (growWidth at its default, true).  The capture session is
\* reduced to what moves the view: the timeline length, whether a recorder is
\* passed and whether the canvas is rendered recording.  The browser keeps
\* scrollLeft within 0 .. scrollWidth - clientWidth and delivers a scroll
\* event whenever scrollLeft changes, also when a script or a layout change
\* moved it; the event is handled within the step that moved the view.

\* longest timeline of the scroll machine
ScrollMaxLen == 4
\* "within 10px of the end"
ScrollThreshold == 10

ScrollComps == {"rw", "compound", "stack"}
\* <<clientWidth, clientHeight>> of the scroll container
ScrollContainer == <<10, 10>>
\* bar geometry: pitch 8
ScrollBarConfig == [width |-> 7, gap |-> 1]

\* a plausible slip: the end test with a strict comparison
nearEndStrict(sl, cw, sw) == sl + cw > sw - ScrollThreshold

\* handleScroll: scrollLeft + clientWidth >= scrollWidth - 10
nearEnd(sl, cw, sw) == sl + cw >= sw - ScrollThreshold

\* a scroll listener is attached (the stack recorder has none)
hasScrollHandler == comp \in {"rw", "compound"}

\* the scroll container before a step
SC0 == [left |-> scrollLeft, width |-> scrollWidth,
        auto |-> isAutoScrollingRef, prev |-> prevCanvasWidthRef]

\* container.scrollLeft = x: the browser clamps, and the scroll event of a
\* changed offset runs handleScroll
ScrollTo(sc, x) ==
    LET cw == container[1]
        left == Max(0, Min(x, sc.width - cw))
    IN IF left = sc.left THEN sc
       ELSE [sc EXCEPT
               !.left = left,
               !.auto = IF hasScrollHandler
                        THEN nearEnd(left, cw, sc.width) ELSE @]

\* canvas.style.width = w px: the content is laid out again
SetContentWidth(sc, w) ==
    ScrollTo([sc EXCEPT !.width = Max(w, container[1])], sc.left)

requiredWidth(n) == n * totalBarWidth(barConfig)

\* RecordingWaveform.draw: resize, then scroll to the end if enabled
RwDrawScroll(sc, n) ==
    LET sc1 == SetContentWidth(sc, Max(requiredWidth(n), container[1]))
    IN IF sc1.auto /\ requiredWidth(n) > container[1]
       THEN ScrollTo(sc1, requiredWidth(n) - container[1])
       ELSE sc1

\* draw of the recording effect of the compound canvas
CompoundDrawScroll(sc, n) ==
    LET sc1 == SetContentWidth(sc, Max(requiredWidth(n), container[1]))
    IN IF requiredWidth(n) > container[1]
       THEN ScrollTo(sc1, requiredWidth(n) - container[1])
       ELSE sc1

\* stopped-state effect of the compound canvas: resize only
CompoundStoppedScroll(sc, n) ==
    SetContentWidth(sc, IF n > 0 THEN Max(requiredWidth(n), container[1])
                                 ELSE container[1])

\* drawWaveform of the stack canvas: resize to the running maximum
StackResize(sc, n, isRec) ==
    IF isRec \/ n > 0
    THEN LET w == stackCanvasWidth(n, barConfig, container[1], sc.prev, TRUE)
         IN [SetContentWidth(sc, w) EXCEPT !.prev = w]
    ELSE sc

\* draw of the animation loop of the stack canvas:
\* drawWaveform(); scrollLeft = scrollWidth
StackLoopScroll(sc, n) ==
    LET sc1 == StackResize(sc, n, TRUE)
    IN ScrollTo(sc1, sc1.width)

\* the draw a commit of a hook-fed canvas makes with timeline length n
CommitScroll(sc, n, isRec) ==
    CASE comp = "compound" ->
           IF isRec THEN CompoundDrawScroll(sc, n)
                    ELSE CompoundStoppedScroll(sc, n)
      [] OTHER ->
           IF isRec THEN StackLoopScroll(sc, n) ELSE StackResize(sc, n, FALSE)

SetSC(sc) ==
    /\ scrollLeft' = sc.left
    /\ scrollWidth' = sc.width
    /\ isAutoScrollingRef' = sc.auto
    /\ prevCanvasWidthRef' = sc.prev

\* the timeline the component draws from
ScrollTimeline == IF comp = "rw" THEN amplitudeDataRef ELSE amplitudes

\* what the scroll machine never changes
scrollFrame == <<comp, growWidth, dpr, sessionCount, recState, analyserReady,
                 container, barConfig, samplingIntervalRef, timers, timeoutId,
                 prevMediaRecorderRef, closureIsPaused, isPaused, canvas,
                 animationRef, rafs, draws, listeners, decodeVars, dec,
                 laterVars>>

ScrollInit ==
    /\ comp \in ScrollComps
    /\ growWidth = TRUE
    /\ dpr = 1
    /\ mediaRecorder = 0
    /\ sessionCount = 0
    /\ recState = "inactive"
    /\ analyserReady = FALSE
    /\ container = ScrollContainer
    /\ barConfig = ScrollBarConfig
    /\ amplitudeDataRef = <<>>
    /\ amplitudes = <<>>
    /\ samplingIntervalRef = FALSE
    /\ timers = 0
    /\ timeoutId = FALSE
    /\ prevMediaRecorderRef = 0
    /\ closureIsPaused = FALSE
    /\ isRecording = FALSE
    /\ isPaused = FALSE
    /\ canvas = BlankCanvas
    /\ prevCanvasWidthRef = 0
    /\ animationRef = FALSE
    /\ rafs = 0
    /\ draws = 0
    /\ scrollLeft = 0
    /\ scrollWidth = ScrollContainer[1]
    /\ isAutoScrollingRef = TRUE
    /\ listeners = {}
    /\ DecodeRest
    /\ DownsampleRest
    /\ LaterRest


\* a recorder is passed.  RecordingWaveform's effect empties the timeline and
\* enables auto-scroll; a hook-fed canvas is rendered recording and draws.
ScrollStart ==
    /\ mediaRecorder = 0
    /\ mediaRecorder' = 1
    /\ amplitudeDataRef' = <<>>
    /\ amplitudes' = <<>>
    /\ IF comp = "rw"
       THEN /\ isRecording' = isRecording
            /\ SetSC([SC0 EXCEPT !.auto = TRUE])
       ELSE /\ isRecording' = TRUE
            /\ SetSC(CommitScroll(SC0, 0, TRUE))
    /\ UNCHANGED scrollFrame

\* the sampler appends a sample; the snapshot of a hook-fed canvas changes
\* and its commit draws
ScrollTick ==
    /\ mediaRecorder # 0
    /\ comp # "rw" => isRecording
    /\ Len(ScrollTimeline) < ScrollMaxLen
    /\ IF comp = "rw"
       THEN /\ amplitudeDataRef' = Append(amplitudeDataRef, 1)
            /\ UNCHANGED <<amplitudes, scrollVars, prevCanvasWidthRef>>
       ELSE /\ amplitudes' = Append(amplitudes, 1)
            /\ amplitudeDataRef' = Append(amplitudeDataRef, 1)
            /\ SetSC(CommitScroll(SC0, Len(amplitudes) + 1, isRecording))
    /\ UNCHANGED <<mediaRecorder, isRecording, scrollFrame>>

\* an animation frame of the drawing loop
ScrollFrame ==
    /\ mediaRecorder # 0
    /\ comp # "rw" => isRecording
    /\ SetSC(CASE comp = "rw" -> RwDrawScroll(SC0, Len(amplitudeDataRef))
               [] comp = "compound" ->
                    CompoundDrawScroll(SC0, Len(amplitudes))
               [] OTHER -> StackLoopScroll(SC0, Len(amplitudes)))
    /\ UNCHANGED <<mediaRecorder, amplitudeDataRef, amplitudes, isRecording,
                   scrollFrame>>

\* the recorder is paused: a hook-fed canvas is rendered not recording
ScrollPause ==
    /\ comp # "rw"
    /\ mediaRecorder # 0
    /\ isRecording
    /\ isRecording' = FALSE
    /\ SetSC(CommitScroll(SC0, Len(amplitudes), FALSE))
    /\ UNCHANGED <<mediaRecorder, amplitudeDataRef, amplitudes, scrollFrame>>

\* the recorder is resumed
ScrollResume ==
    /\ comp # "rw"
    /\ mediaRecorder # 0
    /\ ~isRecording
    /\ isRecording' = TRUE
    /\ SetSC(CommitScroll(SC0, Len(amplitudes), TRUE))
    /\ UNCHANGED <<mediaRecorder, amplitudeDataRef, amplitudes, scrollFrame>>

\* the parent renders again: the effects of the compound canvas run again
\* (barStyle is a new object on every render)
ScrollRender ==
    /\ comp = "compound"
    /\ SetSC(CommitScroll(SC0, Len(amplitudes), isRecording))
    /\ UNCHANGED <<mediaRecorder, amplitudeDataRef, amplitudes, isRecording,
                   scrollFrame>>

\* the user moves the view to offset x
UserScrollTo(x) ==
    /\ x # scrollLeft
    /\ SetSC(ScrollTo(SC0, x))
    /\ UNCHANGED <<mediaRecorder, amplitudeDataRef, amplitudes, isRecording,
                   scrollFrame>>

UserScroll == \E x \in 0..(scrollWidth - container[1]) : UserScrollTo(x)

\* the recorder is withdrawn.  RecordingWaveform clears its bitmap and its
\* timeline; a hook-fed canvas draws the final timeline stopped, then the
\* hook empties the snapshot and the canvas draws again.
ScrollEnd ==
    /\ mediaRecorder # 0
    /\ mediaRecorder' = 0
    /\ amplitudeDataRef' = <<>>
    /\ amplitudes' = <<>>
    /\ isRecording' = FALSE
    /\ IF comp = "rw"
       THEN UNCHANGED <<scrollVars, prevCanvasWidthRef>>
       ELSE LET sc1 == CommitScroll(SC0, Len(amplitudes), FALSE)
                sc2 == IF comp = "stack" /\ Len(amplitudes) > 0
                       THEN [sc1 EXCEPT !.prev = 0] ELSE sc1
            IN SetSC(CommitScroll(sc2, 0, FALSE))
    /\ UNCHANGED scrollFrame

ScrollNext ==
    \/ ScrollStart
    \/ ScrollTick
    \/ ScrollFrame
    \/ ScrollPause
    \/ ScrollResume
    \/ ScrollRender
    \/ UserScroll
    \/ ScrollEnd

ScrollSpec == ScrollInit /\ [][ScrollNext]_vars

\* ============================================================ AudioWaveform
\* The non-suspense AudioWaveform (audio-waveform.tsx; waveform/index.tsx with
\* suspense = false runs the same effect).  A decode is a promise that the
\* environment resolves or rejects later; each effect run that starts one
\* owns a `cancelled` flag, set by its clean-up.  A render that finds an
\* error throws it: React discards the instance and its nearest error
\* boundary shows a fallback until the host resets it, which mounts a new
\* instance.

\* blob objects the host can pass
MaxBlobs == 2
\* decodeAudioBlob calls in one behaviour
MaxDecodes == 3

Blobs == 1..MaxBlobs

\* a plausible slip: the same-blob test is left out
sameBlobNever(ref, b) == FALSE

\* blobRef.current === blob
sameBlob(ref, b) == ref = b

\* a plausible slip: .then sets the peaks without looking at `cancelled`
thenPeaksUncancelled(cancelled, data, old) == data

\* .then((data) => { if (!cancelled) setPeaks(data) })
thenPeaks(cancelled, data, old) == IF ~cancelled THEN data ELSE old

\* a plausible slip: .catch swallows the failure
catchErrorSwallowed(cancelled, old) == old

\* .catch((err) => { if (!cancelled) setError(...) })
catchError(cancelled, old) == IF ~cancelled THEN TRUE ELSE old

\* the instance state before a step
AW0 == [peaks |-> peaks, error |-> error, blobRef |-> blobRef,
        decodes |-> decodes, liveRun |-> liveRun, calls |-> callsSame]

\* a new instance
AWFresh == [AW0 EXCEPT !.peaks = 0, !.error = FALSE, !.blobRef = 0,
                       !.liveRun = 0, !.calls = 0]

\* the clean-up of the decode effect: cancelled = true
CancelRun(st) ==
    IF st.liveRun = 0 THEN st
    ELSE [st EXCEPT !.decodes[st.liveRun].cancelled = TRUE, !.liveRun = 0]

\* the decode effect, run with blob b
RunDecodeEffect(st, b) ==
    IF b = 0
    THEN [st EXCEPT !.peaks = 0, !.error = FALSE, !.blobRef = 0]
    ELSE IF sameBlob(st.blobRef, b)
    THEN st
    ELSE [st EXCEPT
            !.blobRef = b,
            !.error = FALSE,
            !.decodes = Append(@, [blob |-> b, cancelled |-> FALSE,
                                   settled |-> FALSE]),
            !.liveRun = Len(st.decodes) + 1,
            !.calls = @ + 1]

SetAW(st) ==
    /\ peaks' = st.peaks
    /\ error' = st.error
    /\ blobRef' = st.blobRef
    /\ decodes' = st.decodes
    /\ liveRun' = st.liveRun
    /\ callsSame' = st.calls

\* what the decode machine never changes
decodeFrame == <<envVars, samplerVars, canvasVars, scrollVars, listeners,
                 dec, laterVars>>

DecodeInit ==
    /\ comp = "rw"
    /\ growWidth = TRUE
    /\ dpr = 1
    /\ mediaRecorder = 0
    /\ sessionCount = 0
    /\ recState = "inactive"
    /\ analyserReady = FALSE
    /\ container = ScrollContainer
    /\ barConfig = ScrollBarConfig
    /\ amplitudeDataRef = <<>>
    /\ amplitudes = <<>>
    /\ samplingIntervalRef = FALSE
    /\ timers = 0
    /\ timeoutId = FALSE
    /\ prevMediaRecorderRef = 0
    /\ closureIsPaused = FALSE
    /\ isRecording = FALSE
    /\ isPaused = FALSE
    /\ canvas = BlankCanvas
    /\ prevCanvasWidthRef = 0
    /\ animationRef = FALSE
    /\ rafs = 0
    /\ draws = 0
    /\ ScrollRest
    /\ listeners = {}
    /\ DecodeRest
    /\ DownsampleRest
    /\ LaterRest

\* the host passes another blob (or null) to the mounted component
AwSetBlob(b) ==
    /\ phase = "mounted"
    /\ b # blob
    /\ Len(decodes) < MaxDecodes
    /\ blob' = b
    /\ SetAW(RunDecodeEffect([CancelRun(AW0) EXCEPT !.calls = 0], b))
    /\ UNCHANGED <<phase, decodeFrame>>

\* the effect is cleaned up and run again with the same blob (StrictMode;
\* in waveform/index.tsx also the suspense prop switched on and off again)
AwEffectRerun ==
    /\ phase = "mounted"
    /\ Len(decodes) < MaxDecodes
    /\ SetAW(RunDecodeEffect(CancelRun(AW0), blob))
    /\ UNCHANGED <<blob, phase, decodeFrame>>

\* decode i resolves
AwResolve(i) ==
    /\ ~decodes[i].settled
    /\ decodes' = [decodes EXCEPT ![i].settled = TRUE]
    /\ peaks' = thenPeaks(decodes[i].cancelled, decodes[i].blob, peaks)
    /\ liveRun' = IF liveRun = i THEN 0 ELSE liveRun
    /\ UNCHANGED <<blob, error, blobRef, phase, callsSame, decodeFrame>>

\* decode i rejects; if the error is set, the next render throws it, the
\* instance is discarded (its clean-up runs) and the boundary holds the error
AwReject(i) ==
    /\ ~decodes[i].settled
    /\ LET ds == [decodes EXCEPT ![i].settled = TRUE]
           e == catchError(decodes[i].cancelled, error)
       IN IF e
          THEN /\ error' = TRUE
               /\ phase' = "fallback"
               /\ SetAW([CancelRun([AWFresh EXCEPT !.decodes = ds,
                                       !.liveRun = IF liveRun = i THEN 0
                                                   ELSE liveRun])
                           EXCEPT !.error = TRUE])
          ELSE /\ decodes' = ds
               /\ liveRun' = IF liveRun = i THEN 0 ELSE liveRun
               /\ UNCHANGED <<peaks, error, blobRef, phase, callsSame>>
    /\ UNCHANGED <<blob, decodeFrame>>

\* while the fallback is shown the host passes another blob: no
\* AudioWaveform is rendered, no effect runs
AwHostBlob(b) ==
    /\ phase = "fallback"
    /\ b # blob
    /\ blob' = b
    /\ UNCHANGED <<peaks, error, blobRef, phase, decodes, liveRun, callsSame,
                   decodeFrame>>

\* the host resets the error boundary: a new instance mounts
AwBoundaryReset ==
    /\ phase = "fallback"
    /\ Len(decodes) < MaxDecodes
    /\ phase' = "mounted"
    /\ SetAW(RunDecodeEffect(AWFresh, blob))
    /\ UNCHANGED <<blob, decodeFrame>>

DecodeNext ==
    \/ \E b \in Blobs \cup {0} : AwSetBlob(b)
    \/ AwEffectRerun
    \/ \E i \in 1..Len(decodes) : AwResolve(i)
    \/ \E i \in 1..Len(decodes) : AwReject(i)
    \/ \E b \in Blobs \cup {0} : AwHostBlob(b)
    \/ AwBoundaryReset

DecodeSpec == DecodeInit /\ [][DecodeNext]_vars

\* every decode that can resolve does resolve in the end
DecodeFairSpec ==
    /\ DecodeSpec
    /\ \A i \in 1..MaxDecodes :
          WF_vars((i \in 1..Len(decodes)) /\ AwResolve(i))

\* ================================================================== decode
\* The downsampling step of decode(source, sampleCount), after the spec's
\* SignalDecoder (./audio-decoder, imported by AudioWaveform): sampleCount
\* contiguous buckets of floor(total / sampleCount) samples, the last one
\* taking the remainder; the peak of a bucket is its largest absolute
\* amplitude; the peaks are divided by the largest peak, and where that is 0
\* (silence) they are only clamped.  A sample is an integer amplitude level,
\* an output value the fraction num / den.

\* longest decoded signal
MaxSamples == 4
\* largest amplitude level
MaxAmp == 2
\* largest sampleCount
MaxSampleCount == 5

Signals == UNION {[1..l -> -MaxAmp..MaxAmp] : l \in 0..MaxSamples}

Abs(x) == IF x < 0 THEN -x ELSE x

RECURSIVE MaxAbs(_, _, _)
\* the largest |samples[j]| for lo <= j < hi (0-based), 0 for an empty range
MaxAbs(samples, lo, hi) ==
    IF lo >= hi THEN 0
    ELSE Max(Abs(samples[lo + 1]), MaxAbs(samples, lo + 1, hi))

\* bucket i (0-based) of n covers [bucketStart, bucketEnd)
bucketStart(total, n, i) == i * (total \div n)
\* a plausible slip: the last bucket ends like the others
bucketEndNoRemainder(total, n, i) == (i + 1) * (total \div n)

bucketEnd(total, n, i) ==
    IF i = n - 1 THEN total ELSE (i + 1) * (total \div n)

bucketPeaks(samples, n) ==
    [i \in 1..n |-> MaxAbs(samples, bucketStart(Len(samples), n, i - 1),
                           bucketEnd(Len(samples), n, i - 1))]

\* a plausible slip: the first peak is taken for the largest
globalMaxFirst(pk) == pk[1]

RECURSIVE globalMax(_)
\* the largest bucket peak
globalMax(pk) == IF pk = <<>> THEN 0 ELSE Max(Head(pk), globalMax(Tail(pk)))

\* peak / max, or the clamped peak where max is 0
normalise(p, m) ==
    IF m > 0 THEN [num |-> p, den |-> m] ELSE [num |-> Min(p, 1), den |-> 1]

decode(samples, n) ==
    LET pk == bucketPeaks(samples, n)
    IN [i \in 1..n |-> normalise(pk[i], globalMax(pk))]

downsampleFrame == <<envVars, samplerVars, canvasVars, scrollVars, listeners,
                     decodeVars, laterVars>>

DownsampleInit ==
    /\ comp = "rw"
    /\ growWidth = TRUE
    /\ dpr = 1
    /\ mediaRecorder = 0
    /\ sessionCount = 0
    /\ recState = "inactive"
    /\ analyserReady = FALSE
    /\ container = ScrollContainer
    /\ barConfig = ScrollBarConfig
    /\ amplitudeDataRef = <<>>
    /\ amplitudes = <<>>
    /\ samplingIntervalRef = FALSE
    /\ timers = 0
    /\ timeoutId = FALSE
    /\ prevMediaRecorderRef = 0
    /\ closureIsPaused = FALSE
    /\ isRecording = FALSE
    /\ isPaused = FALSE
    /\ canvas = BlankCanvas
    /\ prevCanvasWidthRef = 0
    /\ animationRef = FALSE
    /\ rafs = 0
    /\ draws = 0
    /\ ScrollRest
    /\ listeners = {}
    /\ DecodeRest
    /\ LaterRest
    /\ \E s \in Signals, n \in 1..MaxSampleCount :
         dec = [samples |-> s, n |-> n, out |-> <<>>, done |-> FALSE]

\* the call returns
Decode ==
    /\ ~dec.done
    /\ dec' = [dec EXCEPT !.out = decode(dec.samples, dec.n), !.done = TRUE]
    /\ UNCHANGED downsampleFrame

DownsampleNext == Decode

DownsampleSpec == DownsampleInit /\ [][DownsampleNext]_vars

\* ====================================================== PlayheadSeekMapper
\* timeToX and xToTime after the spec's PlayheadSeekMapper (AudioWaveform
\* hands currentTime, duration and onSeek to ./waveform-renderer).  Times and
\* positions are fractions num / den with den > 0.

\* longest duration
MaxDuration == 4
\* widest canvas
MaxWidth == 4

Frac(a, b) == [num |-> a, den |-> b]
FracEq(p, q) == p.num * q.den = q.num * p.den
FracLe(p, q) == p.num * q.den <= q.num * p.den

\* clamp(v, 0, hi)
clamp0(v, hi) ==
    IF v.num < 0 THEN Frac(0, 1)
    ELSE IF v.num > hi * v.den THEN Frac(hi, 1)
    ELSE v

\* clamp(t, 0, duration) / duration * logicalWidth
timeToX(t, duration, logicalWidth) ==
    LET c == clamp0(t, duration)
    IN Frac(c.num * logicalWidth, c.den * duration)

\* a plausible slip: the two lengths change places
xToTimeSwapped(x, duration, logicalWidth) ==
    LET c == clamp0(x, logicalWidth)
    IN Frac(c.num * logicalWidth, c.den * duration)

\* clamp(x, 0, logicalWidth) / logicalWidth * duration
xToTime(x, duration, logicalWidth) ==
    LET c == clamp0(x, logicalWidth)
    IN Frac(c.num * duration, c.den * logicalWidth)

\* times in half units from before 0 to after the end
SeekTimes(d) == {Frac(n, 2) : n \in -1..(2 * d + 1)}

SeekInit ==
    /\ EarlierRest
    /\ LaterRestExcept("seek")
    /\ \E d \in 1..MaxDuration, w \in 1..MaxWidth :
         \E t \in SeekTimes(d) :
           seek = [stage |-> "idle", duration |-> d, logicalWidth |-> w,
                   t |-> t, x |-> Frac(0, 1), time |-> Frac(0, 1)]

\* the playhead is drawn at timeToX(currentTime)
DrawPlayhead ==
    /\ seek.stage = "idle"
    /\ seek' = [seek EXCEPT
                  !.stage = "drawn",
                  !.x = timeToX(seek.t, seek.duration, seek.logicalWidth)]
    /\ UNCHANGED earlierVars
    /\ LaterUnchangedExcept("seek")

\* the user clicks where the playhead is: onSeek(xToTime(x))
SeekAtPlayhead ==
    /\ seek.stage = "drawn"
    /\ seek' = [seek EXCEPT
                  !.stage = "sought",
                  !.time = xToTime(seek.x, seek.duration, seek.logicalWidth)]
    /\ UNCHANGED earlierVars
    /\ LaterUnchangedExcept("seek")

\* the user clicks at pixel px: onSeek(xToTime(px))
SeekClick(px) ==
    /\ seek.stage = "idle"
    /\ seek' = [seek EXCEPT
                  !.stage = "clicked",
                  !.x = Frac(px, 1),
                  !.time = xToTime(Frac(px, 1), seek.duration,
                                   seek.logicalWidth)]
    /\ UNCHANGED earlierVars
    /\ LaterUnchangedExcept("seek")

SeekNext ==
    \/ DrawPlayhead
    \/ SeekAtPlayhead
    \/ \E px \in -1..(seek.logicalWidth + 1) : SeekClick(px)

SeekSpec == SeekInit /\ [][SeekNext]_vars

\* ===================================================== sampler arithmetic
\* The value sampleAmplitude appends: min(1, 2 * rms) of the time-domain
\* bytes, each normalised by (b - 128) / 128.  The model keeps the square of
\* the value, as the fraction num / den; the buffer holds bufferLength >= 1
\* bytes, as an AnalyserNode reports them.

\* largest bufferLength
MaxBufferLength == 2
\* ticks in one behaviour
MaxTicks == 2

\* byte values: both extremes, silence, a quiet sample
ByteLevels == {0, 96, 128, 255}
ByteBuffers == UNION {[1..n -> ByteLevels] : n \in 1..MaxBufferLength}

RECURSIVE sumSquares(_)
\* the sum of (b - 128)^2, that is 128^2 times the sum of normalized^2
sumSquares(bytes) ==
    IF bytes = <<>> THEN 0
    ELSE (Head(bytes) - 128) * (Head(bytes) - 128) + sumSquares(Tail(bytes))

\* a plausible slip: rms * 2 is stored as it is
amplitudeSquaredUnclamped(bytes) ==
    Frac(4 * sumSquares(bytes), Len(bytes) * 128 * 128)

\* (min(1, rms * 2))^2 with rms^2 = sum / bufferLength
amplitudeSquared(bytes) ==
    IF 4 * sumSquares(bytes) >= Len(bytes) * 128 * 128
    THEN Frac(1, 1)
    ELSE Frac(4 * sumSquares(bytes), Len(bytes) * 128 * 128)

AmpInit ==
    /\ EarlierRest
    /\ LaterRestExcept("amp")
    /\ AmpRest

\* a tick with the analyser ready: getByteTimeDomainData fills the buffer,
\* the amplitude is pushed
AmpTick(bytes) ==
    /\ Len(amp.timeline) < MaxTicks
    /\ amp' = [dataArray |-> bytes,
               timeline |-> pushAmplitude(amp.timeline,
                                          amplitudeSquared(bytes))]
    /\ UNCHANGED earlierVars
    /\ LaterUnchangedExcept("amp")

AmpNext == \E bytes \in ByteBuffers : AmpTick(bytes)

AmpSpec == AmpInit /\ [][AmpNext]_vars

\* ================================================================ one draw
\* One call of a bar renderer with the numbers it reads: the bar geometry the
\* component was given, the container size and the data.  Three renderers:
\* the stack canvas (drawWaveform, growing or fixed), the compound
\* live-streaming canvas (draw, growing) and the live recorder canvas (draw,
\* fixed).  JavaScript numbers are doubles; where Math.floor is applied to a
\* quotient the model computes the double.

\* An IEEE-754 double x > 0 is kept as three 18-bit limbs c1, c2, c3 and a
\* scale p: x = (c1 * 2^36 + c2 * 2^18 + c3) * 2^-(p + 36), with c3 even, so
\* that the limbs hold the 53 significant bits; 0 is fzero.
limb == 2^18

fzero == [zero |-> TRUE, c1 |-> 0, c2 |-> 0, c3 |-> 0, p |-> 0]

\* the number of binary digits of t > 0
bitLength(t) == CHOOSE k \in 1..31 : t < 2^k

\* carries of the limbs after an increment, the top limb takes the last one
carry(t1, t2, t3, p) ==
    LET k3 == t3 \div limb
        k2 == (t2 + k3) \div limb
    IN  [zero |-> FALSE, c1 |-> t1 + k2, c2 |-> (t2 + k3) % limb,
         c3 |-> t3 % limb, p |-> p]

\* round to nearest, ties to even: drop the d lowest binary digits of the
\* limbs; sticky says that non-zero digits follow
roundNearestEven(t1, t2, t3, p, d, sticky) ==
    LET low == t3 % 2^d
        g == (t3 \div 2^(d - 1)) % 2
        s == sticky \/ t3 % 2^(d - 1) # 0
        lsb == (t3 \div 2^d) % 2
        up == g = 1 /\ (s \/ lsb = 1)
    IN  carry(t1, t2, t3 - low + (IF up THEN 2^d ELSE 0), p)

\* the double a / b of two integers a >= 0, b > 0
fdiv(a, b) ==
    IF a = 0 THEN fzero
    ELSE LET p == CHOOSE k \in 0..29 : (a * 2^k) \div b >= 2^17
             c1 == (a * 2^p) \div b
             r1 == (a * 2^p) % b
             c2 == (r1 * limb) \div b
             r2 == (r1 * limb) % b
             c3 == (r2 * limb) \div b
             r3 == (r2 * limb) % b
         IN  roundNearestEven(c1, c2, c3, p, 1, r3 # 0)

\* the double i * x of an integer i >= 0 and a double x
fmul(i, x) ==
    IF i = 0 \/ x.zero THEN fzero
    ELSE LET t3 == x.c3 * i
             t2 == x.c2 * i + (t3 \div limb)
             t1 == x.c1 * i + (t2 \div limb)
         IN  roundNearestEven(t1, t2 % limb, t3 % limb, x.p,
                              bitLength(t1) - 17, FALSE)

\* Math.floor of a double x >= 0
ffloor(x) == IF x.zero THEN 0 ELSE x.c1 \div 2^x.p

\* a numeric prop: not given (undefined), or a number
BarInputs ==
    {[given |-> FALSE, value |-> 0]}
        \cup {[given |-> TRUE, value |-> n] : n \in {-1, 0, 1}}
\* clientWidth of the container
ContainerWidths == {0, 8, 44}
\* clientHeight of the container
ContainerHeights == {20}
\* length of the data sequence
SourceLengths == {0, 3, 30, 44}
\* the data: sample k has the value ((k + pattern) % 3) / 2
Patterns == {0, 1}
Renderers == {"stack", "stackFixed", "compound", "live", "idle"}

\* bytes of the frequency snapshot the live recorder canvas is given (the
\* analysis node delivers bytes 0..255); sample k is byte ((k + pattern) % 3)
FrequencyBytes == <<0, 50, 250>>

\* appearance?.barWidth ?? DEFAULT_WAVEFORM_APPEARANCE.barWidth, and barGap
appearanceOr(input) == IF input.given THEN input.value ELSE 1

\* barStyle?.width ? barStyle.width : 3 -- a missing value and 0 are falsy
barStyleOr(input, default) ==
    IF input.given /\ input.value # 0 THEN input.value ELSE default

\* the bar width and the gap the renderer works with
resolvedBarWidth(c) ==
    IF c.renderer \in {"stack", "stackFixed"} THEN appearanceOr(c.width)
    ELSE barStyleOr(c.width, 3)

resolvedGap(c) ==
    IF c.renderer \in {"stack", "stackFixed"} THEN appearanceOr(c.gap)
    ELSE barStyleOr(c.gap, 1)

\* const totalBarWidth = barWidth + gap
drawPitch(c) == resolvedBarWidth(c) + resolvedGap(c)

\* barHeightScale in hundredths: the defaults of the three renderers
drawHeightScale100(c) ==
    IF c.renderer \in {"stack", "stackFixed"} THEN 95 ELSE 90

\* twice the value of sample k, a[k] || 0 outside the data: an amplitude of
\* the timeline, and frequency / 100 in the live recorder canvas
sampleTwice(c, k) ==
    IF k < 0 \/ k >= c.len THEN 0
    ELSE IF c.renderer = "live"
         THEN FrequencyBytes[((k + c.pattern) % 3) + 1] \div 50
         ELSE (k + c.pattern) % 3

\* Math.floor(width / totalBarWidth): "infinite" for x / 0 with x > 0, no
\* iteration for NaN (0 / 0) and for a negative or zero quotient
slotCount(w, pitch) ==
    IF pitch > 0 THEN [finite |-> TRUE, n |-> ffloor(fdiv(w, pitch))]
    ELSE IF pitch = 0 /\ w > 0 THEN [finite |-> FALSE, n |-> 0]
    ELSE [finite |-> TRUE, n |-> 0]

\* Math.min(Math.floor(i * step), amplitudes.length - 1) with
\* step = amplitudes.length / barsCount
stackSourceIndex(i, len, barsCount) ==
    Min(ffloor(fmul(i, fdiv(len, barsCount))), len - 1)

\* Math.floor((i / numBars) * frequencies.length)
liveSourceIndex(i, len, numBars) == ffloor(fmul(len, fdiv(i, numBars)))

\* a plausible slip: bars set side by side without the gap
barXNoGap(c, i) == i * resolvedBarWidth(c)

\* const x = i * totalBarWidth
barX(c, i) == i * drawPitch(c)

\* roundRect(x, y, barWidth, barHeight, barRadius) for slot i showing sample
\* k: height in 1/200 px, y in 1/400 px
drawnBar(c, i, k) ==
    LET h200 == Max(minBarHeight * 200,
                    sampleTwice(c, k) * c.height * drawHeightScale100(c))
    IN  [slot |-> i, src |-> k, x |-> barX(c, i), h200 |-> h200,
         y400 |-> 200 * c.height - h200]

\* the loop of a renderer: the bars in the order drawn
drawnBars(c, n, fixed) ==
    [j \in 1..n |->
        drawnBar(c, j - 1,
                 IF ~fixed THEN j - 1
                 ELSE IF c.renderer = "idle" THEN -1
                 ELSE IF c.renderer = "live"
                      THEN liveSourceIndex(j - 1, c.len, n)
                      ELSE stackSourceIndex(j - 1, c.len, n))]

\* nothing drawn yet
NothingDrawn ==
    [stage |-> "ready", pitch |-> 0, logical |-> <<0, 0>>,
     cleared |-> <<0, 0>>, slots |-> 0, bars |-> <<>>]

BarsInit ==
    /\ EarlierRest
    /\ LaterRestExcept("bars")
    /\ \E r \in Renderers, w \in BarInputs, g \in BarInputs,
          cw \in ContainerWidths, ch \in ContainerHeights,
          n \in SourceLengths, pt \in Patterns :
          /\ n = 0 => pt = 0
          /\ drawCall = [renderer |-> r, width |-> w, gap |-> g, cw |-> cw,
                         height |-> ch, len |-> n, pattern |-> pt]
                            @@ NothingDrawn

\* the logical width the renderer gives the canvas (first draw of a
\* session, devicePixelRatio 1)
drawLogicalWidth(c) ==
    IF c.renderer = "stack"
    THEN Max(IF c.len > 0 THEN c.len * drawPitch(c) ELSE c.cw, 0)
    ELSE IF c.renderer = "compound" THEN Max(c.len * drawPitch(c), c.cw)
    ELSE c.cw

\* the bitmap is sized, ctx.clearRect(0, 0, width, height) is called, then
\* the loop runs `count` times
Drawn(c, count, fixed) ==
    LET size == <<drawLogicalWidth(c), c.height>>
        d == [c EXCEPT !.pitch = drawPitch(c), !.logical = size,
                       !.cleared = size]
    IN  IF ~count.finite
        THEN [d EXCEPT !.stage = "hung"]
        ELSE [d EXCEPT !.stage = "drawn", !.slots = count.n,
                       !.bars = drawnBars(c, count.n, fixed)]

\* stack canvas, drawWaveform while recording: the bitmap is sized and
\* cleared, then one bar per amplitude (growWidth) or one per slot
DrawStack ==
    /\ drawCall.stage = "ready"
    /\ drawCall.renderer \in {"stack", "stackFixed"}
    /\ drawCall' =
          IF drawCall.renderer = "stack"
          THEN Drawn(drawCall, [finite |-> TRUE, n |-> drawCall.len], FALSE)
          ELSE Drawn(drawCall, slotCount(drawCall.cw, drawPitch(drawCall)),
                     TRUE)
    /\ UNCHANGED earlierVars
    /\ LaterUnchangedExcept("bars")

\* compound live-streaming canvas, draw while recording: one bar per
\* amplitude
DrawCompound ==
    /\ drawCall.stage = "ready"
    /\ drawCall.renderer = "compound"
    /\ drawCall' =
          Drawn(drawCall, [finite |-> TRUE, n |-> drawCall.len], FALSE)
    /\ UNCHANGED earlierVars
    /\ LaterUnchangedExcept("bars")

\* live recorder canvas, draw: the effect returns early without data
DrawLive ==
    /\ drawCall.stage = "ready"
    /\ drawCall.renderer = "live"
    /\ drawCall.len > 0
    /\ drawCall' =
          Drawn(drawCall, slotCount(drawCall.cw, drawPitch(drawCall)), TRUE)
    /\ UNCHANGED earlierVars
    /\ LaterUnchangedExcept("bars")

\* Math.floor((width + gap) / totalBarWidth) of the idle view
idleSlots(c) ==
    IF c.cw + resolvedGap(c) <= 0 /\ drawPitch(c) # 0
    THEN [finite |-> TRUE, n |-> 0]
    ELSE slotCount(c.cw + resolvedGap(c), drawPitch(c))

\* context canvas, drawWaveform with no recorder and no data: the idle view,
\* one bar of the minimal height per slot
DrawIdle ==
    /\ drawCall.stage = "ready"
    /\ drawCall.renderer = "idle"
    /\ drawCall.len = 0
    /\ drawCall' = Drawn(drawCall, idleSlots(drawCall), TRUE)
    /\ UNCHANGED earlierVars
    /\ LaterUnchangedExcept("bars")

BarsNext == DrawStack \/ DrawCompound \/ DrawLive \/ DrawIdle

BarsSpec == BarsInit /\ [][BarsNext]_vars

\* ========================================================= useAudioRecorder
\* The recording hook: its React state, the refs its callbacks read (synced
\* by an effect at every commit), the MediaRecorder objects it has created
\* and the events they have queued.  A MediaRecorder follows the
\* MediaStream Recording API: stop() makes it inactive and queues its stop
\* event, pause() and resume() throw on an inactive recorder.

\* MediaRecorder objects created in one behaviour
MaxRecorders == 2
\* seconds counted by the duration timer
MaxRecordingTime == 1

\* chunks one recorder delivers
MaxChunks == 2

RecInit ==
    /\ EarlierRest
    /\ LaterRestExcept("rec")
    /\ rec = [stage |-> "hook", mediaRecorder |-> 0, recordingBlob |-> 0,
              recordingTime |-> 0, isRecording |-> FALSE,
              isPaused |-> FALSE, error |-> FALSE,
              mediaRecorderRef |-> 0, isRecordingRef |-> FALSE,
              isPausedRef |-> FALSE, streamRef |-> 0, pending |-> 0,
              audioChunksRef |-> <<>>, blobParts |-> <<>>,
              timerRef |-> "null", timers |-> 0,
              recorders |-> <<>>, last |-> "mount",
              cleared |-> [armed |-> FALSE, wait |-> 0]]

\* the commit after a handler: the sync effect copies the state to the refs
syncRefs(r) ==
    [r EXCEPT !.mediaRecorderRef = r.mediaRecorder,
              !.isRecordingRef = r.isRecording,
              !.isPausedRef = r.isPaused]

\* clearInterval(timerRef.current): the ref keeps the id of the interval
clearTimer(r) ==
    IF r.timerRef = "live"
    THEN [r EXCEPT !.timers = @ - 1, !.timerRef = "cleared"]
    ELSE r

\* a slip: the effect sets an interval and never clears one
timerEffectNoClear(prev, r) ==
    IF prev.isRecording = r.isRecording /\ prev.isPaused = r.isPaused
    THEN r
    ELSE IF r.isRecording /\ ~r.isPaused
         THEN [r EXCEPT !.timers = @ + 1, !.timerRef = "live"]
         ELSE r

\* the duration-timer effect, run at a commit that changed isRecording or
\* isPaused: the cleanup of the previous run, then the body
timerEffect(prev, r) ==
    IF prev.isRecording = r.isRecording /\ prev.isPaused = r.isPaused
    THEN r
    ELSE LET c == clearTimer(r)
         IN  IF r.isRecording /\ ~r.isPaused
             THEN [c EXCEPT !.timers = @ + 1, !.timerRef = "live"]
             ELSE IF c.timerRef # "null"
                  THEN [clearTimer(c) EXCEPT !.timerRef = "null"]
                  ELSE c

\* the commit that follows a callback: the effects run; on an unmounted hook
\* the state setters do nothing, the refs and the recorders are still written
commit(prev, r) ==
    IF prev.stage = "hook"
    THEN timerEffect(prev, syncRefs(r))
    ELSE [r EXCEPT !.mediaRecorder = prev.mediaRecorder,
                   !.recordingBlob = prev.recordingBlob,
                   !.blobParts = prev.blobParts,
                   !.recordingTime = prev.recordingTime,
                   !.isRecording = prev.isRecording,
                   !.isPaused = prev.isPaused,
                   !.error = prev.error]

\* a step of the hook other than a clear and the events it waits for
RecStep(r, label) ==
    /\ rec' = commit(rec, [r EXCEPT !.last = label,
                                    !.cleared = [armed |-> FALSE, wait |-> 0]])
    /\ UNCHANGED earlierVars
    /\ LaterUnchangedExcept("rec")

\* the recorder the callbacks would act on is there and is said to record
recorderHeld == rec.mediaRecorderRef # 0 /\ rec.isRecordingRef

\* startRecording (which tests nothing) up to its await: error, chunks, blob and time are reset and
\* getUserMedia is asked
StartRecording ==
    /\ rec.stage = "hook"
    /\ Len(rec.recorders) + rec.pending < MaxRecorders
    /\ RecStep([rec EXCEPT !.error = FALSE, !.recordingBlob = 0,
                           !.blobParts = <<>>,
                           !.audioChunksRef = <<>>,
                           !.recordingTime = 0,
                           !.pending = rec.pending + 1], "start")

\* getUserMedia resolves: the recorder is created and started
StartGranted ==
    /\ rec.pending > 0
    /\ LET id == Len(rec.recorders) + 1
       IN  RecStep([rec EXCEPT
                      !.pending = rec.pending - 1,
                      !.streamRef = id,
                      !.recorders = Append(rec.recorders,
                                           [state |-> "recording",
                                            stopQueued |-> FALSE,
                                            finalPending |-> FALSE,
                                            delivered |-> 0,
                                            completed |-> 0,
                                            tracksLive |-> TRUE]),
                      !.mediaRecorder = id,
                      !.isRecording = TRUE,
                      !.isPaused = FALSE], "granted")

\* getUserMedia rejects: the catch block stores the error
StartDenied ==
    /\ rec.pending > 0
    /\ RecStep([rec EXCEPT !.pending = rec.pending - 1, !.error = TRUE],
               "denied")

\* recorder.stop(): throws on an inactive recorder, else the recorder is
\* inactive and its last dataavailable and its stop event are queued
recorderStop(r, id) ==
    [r EXCEPT !.recorders[id].state = "inactive",
              !.recorders[id].stopQueued = TRUE,
              !.recorders[id].finalPending = TRUE]

\* track.stop() on every track of stream id; a recorder whose tracks have
\* all ended stops by itself
stopTracks(r, id) ==
    IF id = 0 THEN r
    ELSE LET t == [r EXCEPT !.recorders[id].tracksLive = FALSE]
         IN  IF r.recorders[id].state # "inactive"
             THEN recorderStop(t, id) ELSE t

StopRecording ==
    /\ rec.stage = "hook"
    /\ RecStep(IF recorderHeld
                  /\ rec.recorders[rec.mediaRecorderRef].state # "inactive"
               THEN recorderStop(rec, rec.mediaRecorderRef)
               ELSE rec, "stop")

PauseRecording ==
    /\ rec.stage = "hook"
    /\ RecStep(IF recorderHeld /\ ~rec.isPausedRef
                  /\ rec.recorders[rec.mediaRecorderRef].state # "inactive"
               THEN [rec EXCEPT
                       !.recorders[rec.mediaRecorderRef].state = "paused",
                       !.isPaused = TRUE]
               ELSE rec, "pause")

ResumeRecording ==
    /\ rec.stage = "hook"
    /\ RecStep(IF recorderHeld /\ rec.isPausedRef
                  /\ rec.recorders[rec.mediaRecorderRef].state # "inactive"
               THEN [rec EXCEPT
                       !.recorders[rec.mediaRecorderRef].state = "recording",
                       !.isPaused = FALSE]
               ELSE rec, "resume")

\* a recorder delivers a chunk, every 100 ms while it records and once more
\* when it stops: recorder.ondataavailable pushes it to the one chunk list
OnDataAvailable(id) ==
    /\ id \in 1..Len(rec.recorders)
    /\ rec.recorders[id].state = "recording" \/ rec.recorders[id].finalPending
    /\ rec.recorders[id].delivered < MaxChunks
    /\ rec' = [rec EXCEPT
                 !.recorders[id].delivered = @ + 1,
                 !.recorders[id].finalPending = FALSE,
                 !.audioChunksRef =
                     Append(@, <<id, rec.recorders[id].delivered + 1>>),
                 !.last = "data"]
    /\ UNCHANGED earlierVars
    /\ LaterUnchangedExcept("rec")

\* the stop event of recorder id is delivered: recorder.onstop stores
\* new Blob(chunks), calls onRecordingComplete, clears the flags and the
\* recorder, releases the stream the ref holds
OnStop(id) ==
    /\ id \in 1..Len(rec.recorders)
    /\ rec.recorders[id].stopQueued
    /\ rec' = commit(rec,
                stopTracks([rec EXCEPT
                          !.recorders[id].stopQueued = FALSE,
                          !.recorders[id].finalPending = FALSE,
                          !.recorders[id].completed = @ + 1,
                          !.recordingBlob = id,
                          !.blobParts = rec.audioChunksRef,
                          !.isRecording = FALSE,
                          !.isPaused = FALSE,
                          !.mediaRecorder = 0,
                          !.streamRef = 0,
                          !.last = "onstop",
                          !.cleared =
                             IF rec.cleared.armed /\ rec.cleared.wait = id
                             THEN rec.cleared
                             ELSE [armed |-> FALSE, wait |-> 0]],
                        rec.streamRef))
    /\ UNCHANGED earlierVars
    /\ LaterUnchangedExcept("rec")

\* recorder id fails: recorder.onerror runs, the recorder becomes inactive
\* and its stop event is queued
OnError(id) ==
    /\ id \in 1..Len(rec.recorders)
    /\ rec.recorders[id].state # "inactive"
    /\ RecStep([recorderStop(rec, id) EXCEPT !.error = TRUE,
                                             !.isRecording = FALSE,
                                             !.isPaused = FALSE],
               "onerror")

\* the one-second interval of the duration timer fires
TimerTick ==
    /\ rec.stage = "hook"
    /\ rec.timers > 0
    /\ rec.recordingTime < MaxRecordingTime
    /\ RecStep([rec EXCEPT !.recordingTime = rec.recordingTime + 1], "tick")

\* clearRecording: stops a held recorder (a throw of stop() ends the call),
\* then empties chunks, blob, time and error
ClearRecording ==
    /\ rec.stage = "hook"
    /\ rec' =
        LET held == recorderHeld
            id == rec.mediaRecorderRef
            threw == held /\ rec.recorders[id].state = "inactive"
            r == IF held /\ ~threw THEN recorderStop(rec, id) ELSE rec
            waitFor == IF held /\ r.recorders[id].stopQueued THEN id ELSE 0
        IN  commit(rec, [(IF threw THEN r
                       ELSE [r EXCEPT !.recordingBlob = 0,
                                      !.blobParts = <<>>,
                                      !.audioChunksRef = <<>>,
                                      !.recordingTime = 0,
                                      !.error = FALSE])
                      EXCEPT !.last = "clear",
                             !.cleared = [armed |-> TRUE, wait |-> waitFor]])
    /\ UNCHANGED earlierVars
    /\ LaterUnchangedExcept("rec")

\* the hook unmounts: the timer effect's cleanup and the unmount cleanup
\* run, which clear the interval and stop the tracks of the stream the ref
\* holds; no recorder is stopped, the ref is not cleared
Unmount ==
    /\ rec.stage = "hook"
    /\ rec' = [stopTracks(clearTimer(rec), rec.streamRef)
                 EXCEPT !.stage = "unmounted", !.last = "unmount",
                        !.cleared = [armed |-> FALSE, wait |-> 0]]
    /\ UNCHANGED earlierVars
    /\ LaterUnchangedExcept("rec")

RecNext ==
    \/ StartRecording
    \/ StartGranted
    \/ StartDenied
    \/ StopRecording
    \/ PauseRecording
    \/ ResumeRecording
    \/ ClearRecording
    \/ \E id \in 1..MaxRecorders : OnDataAvailable(id)
    \/ \E id \in 1..MaxRecorders : OnStop(id)
    \/ \E id \in 1..MaxRecorders : OnError(id)
    \/ TimerTick
    \/ Unmount

RecSpec == RecInit /\ [][RecNext]_vars

\* ============================================= frame loops and pauses
\* The frame loops that are kept through a pause: the legacy
\* LiveStreamingRecorder and LiveRecorder (each with `let isPaused` in the
\* closure of its effect, set by the recorder's pause and resume events, and
\* a 50 ms timeout before the first draw) and the live recorder canvas (whose
\* effect is re-run with the isPaused and frequencies of its context).
\* lastFrame tells what the latest call of draw did.

LoopComps == {"legacy", "liveRecorder", "liveCanvas"}
\* versions of the data a loop can be given
MaxLoopData == 2
\* container sizes
LoopSizes == {1, 2}

LoopInit ==
    /\ EarlierRest
    /\ LaterRestExcept("live")
    /\ \E c \in LoopComps :
          live = [stage |-> "mounted", comp |-> c, session |-> FALSE,
                  recState |-> "inactive", isPaused |-> FALSE,
                  analyserReady |-> FALSE, timeoutId |-> FALSE, rafs |-> 0,
                  animationRef |-> "null", timer |-> FALSE, size |-> 1, data |-> 0,
                  drawn |-> [size |-> 0, data |-> 0], lastFrame |-> "none"]

\* a slip: a clean-up that does not cancel the frame it asked for
loopCancelFrameForgotten(l) == l

\* if (animationRef.current) { cancelAnimationFrame(animationRef.current);
\* animationRef.current = null }: the ref holds the id of a pending frame or
\* of one that has fired
loopCancelFrame(l) ==
    IF l.animationRef = "null" THEN l
    ELSE [l EXCEPT !.rafs = IF l.animationRef = "pending" THEN @ - 1 ELSE @,
                   !.animationRef = "null"]

\* animationRef.current = requestAnimationFrame(draw)
loopRequestFrame(l) ==
    [l EXCEPT !.rafs = @ + 1, !.animationRef = "pending"]

\* draw(): paused, it asks for the next frame and returns; LiveRecorder
\* returns at once without analyser or buffer; otherwise the canvas is sized
\* and drawn from the data and the next frame is asked for
loopDraw(l) ==
    IF l.isPaused
    THEN loopRequestFrame([l EXCEPT !.lastFrame = "skipped"])
    ELSE IF l.comp = "liveRecorder" /\ ~l.analyserReady
         THEN [l EXCEPT !.lastFrame = "gaveUp"]
         ELSE loopRequestFrame(
                  [l EXCEPT !.drawn = [size |-> l.size, data |-> l.data],
                            !.lastFrame = "drew"])

\* the effect of the live recorder canvas runs again: the clean-up cancels
\* the frame asked for, then draw() is called
loopEffect(l) == loopDraw(loopCancelFrame(l))

LoopStep(l) ==
    /\ live' = l
    /\ UNCHANGED earlierVars
    /\ LaterUnchangedExcept("live")

\* a recorder is passed in: the effect runs
LoopStart ==
    /\ ~live.session
    /\ LET l == [live EXCEPT !.session = TRUE, !.recState = "recording",
                             !.isPaused = FALSE, !.analyserReady = FALSE,
                             !.data = 0]
       IN  LoopStep(IF live.comp = "liveCanvas" THEN loopEffect(l)
                    ELSE [l EXCEPT !.timeoutId = TRUE])

\* the analysis node and its buffer become available
LoopAnalyserSetup ==
    /\ live.session
    /\ ~live.analyserReady
    /\ LoopStep([live EXCEPT !.analyserReady = TRUE])

\* the 50 ms timeout: startSampling() in the legacy recorder, then draw()
LoopSettle ==
    /\ live.timeoutId
    /\ LoopStep(loopDraw([live EXCEPT
                            !.timeoutId = FALSE,
                            !.timer = (live.comp = "legacy")]))

\* an animation frame: the pending callback runs
LoopFrame ==
    /\ live.rafs > 0
    /\ LoopStep(loopDraw([live EXCEPT
                            !.rafs = @ - 1,
                            !.animationRef = IF live.rafs = 1 THEN "spent"
                                             ELSE @]))

\* the recorder's pause event
LoopPause ==
    /\ live.session
    /\ live.recState = "recording"
    /\ LET l == [live EXCEPT !.recState = "paused", !.isPaused = TRUE,
                             !.timer = FALSE]
       IN  LoopStep(IF live.comp = "liveCanvas" THEN loopEffect(l) ELSE l)

\* the recorder's resume event
LoopResume ==
    /\ live.session
    /\ live.recState = "paused"
    /\ LET l == [live EXCEPT !.recState = "recording", !.isPaused = FALSE,
                             !.timer = (live.comp = "legacy")]
       IN  LoopStep(IF live.comp = "liveCanvas" THEN loopEffect(l) ELSE l)

\* new data: a tick of the legacy sampler, new frequencies for the live
\* recorder canvas, new bytes in the analyser of LiveRecorder
LoopData ==
    /\ live.session
    /\ live.recState = "recording"
    /\ live.data < MaxLoopData
    /\ CASE live.comp = "legacy" -> live.timer /\ live.analyserReady
         [] live.comp = "liveRecorder" -> live.analyserReady
         [] OTHER -> TRUE
    /\ LET l == [live EXCEPT !.data = @ + 1]
       IN  LoopStep(IF live.comp = "liveCanvas" THEN loopEffect(l) ELSE l)

\* the container is resized
LoopResize ==
    /\ \E size \in LoopSizes \ {live.size} :
          LoopStep([live EXCEPT !.size = size])

\* the recorder is withdrawn: the clean-up of the effect
LoopEnd ==
    /\ live.session
    /\ LoopStep([loopCancelFrame(live) EXCEPT
                    !.session = FALSE, !.recState = "inactive",
                    !.timeoutId = FALSE,
                    !.timer = FALSE, !.lastFrame = "none"])

\* a prop of the effect's dependencies changes during the session (barConfig,
\* barStyle, barHeightScale): the clean-up runs, then the effect, whose
\* closure starts with isPaused = false in the two recorders
LoopPropChange ==
    /\ live.session
    /\ LoopStep(IF live.comp = "liveCanvas" THEN loopEffect(live)
                ELSE [loopCancelFrame(live) EXCEPT !.timeoutId = TRUE,
                                                   !.timer = FALSE,
                                                   !.isPaused = FALSE])

LoopNext ==
    \/ LoopStart
    \/ LoopAnalyserSetup
    \/ LoopSettle
    \/ LoopFrame
    \/ LoopPause
    \/ LoopResume
    \/ LoopData
    \/ LoopResize
    \/ LoopPropChange
    \/ LoopEnd

LoopSpec == LoopInit /\ [][LoopNext]_vars

\* ------------------------------------------- the sampler against the clock
\* useRecordingAmplitudes with a recording recorder, its timers placed on a
\* time axis in milliseconds.  A timer never fires before it is due; it may
\* fire up to one step of the axis late.

\* the step of the time axis
TickMs == 10

\* how long the session is followed
HorizonMs == 500

\* sampleInterval = 50, the hook's default
sampleIntervalMs == 50

\* setTimeout(() => startSampling(), 50)
settleDelayMs == 50

\* a slip: startSampling called by the effect itself, without the timeout
settleDueNone(t) == t

\* the time the settle timeout is due, set when the effect runs at t
settleDue(t) == t + settleDelayMs

\* the effect has run at time 0 for a recorder that is recording
ClockInit ==
    /\ EarlierRest
    /\ LaterRestExcept("clock")
    /\ \E ready \in BOOLEAN :
        clock = [stage |-> "hook", now |-> 0, analyserReady |-> ready,
                 readyAt |-> IF ready THEN 0 ELSE -1,
                 timeoutDue |-> settleDue(0), tickDue |-> -1,
                 data |-> <<>>, snapshot |-> <<>>, last |-> "effect"]

\* no timer is overdue
NoneOverdue(c) ==
    /\ c.timeoutDue = -1 \/ c.now <= c.timeoutDue
    /\ c.tickDue = -1 \/ c.now <= c.tickDue

\* time passes
ClockAdvance ==
    /\ clock.stage = "hook"
    /\ clock.now + TickMs <= HorizonMs
    /\ NoneOverdue(clock)
    /\ clock' = [clock EXCEPT !.now = @ + TickMs, !.last = "advance"]
    /\ UNCHANGED earlierVars /\ LaterUnchangedExcept("clock")

\* useAudioAnalyser delivers the analyser and its buffer
ClockAnalyserSetup ==
    /\ clock.stage = "hook"
    /\ ~clock.analyserReady
    /\ clock' = [clock EXCEPT !.analyserReady = TRUE, !.readyAt = clock.now,
                              !.last = "analyser"]
    /\ UNCHANGED earlierVars /\ LaterUnchangedExcept("clock")

\* the settle timeout fires: startSampling sets the interval
ClockSettle ==
    /\ clock.stage = "hook"
    /\ clock.timeoutDue # -1
    /\ clock.now >= clock.timeoutDue
    /\ clock' = [clock EXCEPT !.timeoutDue = -1,
                              !.tickDue = clock.now + sampleIntervalMs,
                              !.last = "settle"]
    /\ UNCHANGED earlierVars /\ LaterUnchangedExcept("clock")

\* an interval tick: sampleAmplitude; the interval is re-armed from the time
\* the tick was due or from the time it ran
ClockTick ==
    /\ clock.stage = "hook"
    /\ clock.tickDue # -1
    /\ clock.now >= clock.tickDue
    /\ \E v \in Levels, next \in {clock.tickDue, clock.now} :
        LET data == IF clock.analyserReady
                    THEN pushAmplitude(clock.data, v) ELSE clock.data
        IN clock' = [clock EXCEPT !.tickDue = next + sampleIntervalMs,
                                  !.data = data,
                                  !.snapshot = IF clock.analyserReady
                                               THEN data ELSE @,
                                  !.last = "tick"]
    /\ UNCHANGED earlierVars /\ LaterUnchangedExcept("clock")

ClockNext ==
    \/ ClockAdvance
    \/ ClockAnalyserSetup
    \/ ClockSettle
    \/ ClockTick

ClockSpec == ClockInit /\ [][ClockNext]_vars

\* ------------------------------------------------------------------ claims

\* C1 (as claimed): from the delivery of a pause event until the matching
\* resume event no step makes the AmplitudeTimeline longer, in any
\* interleaving of pause/resume, the settle timeout and interval ticks.
C1_PausedTimelineFrozen ==
    [][recState = "paused" =>
          Len(amplitudeDataRef') <= Len(amplitudeDataRef)]_vars

\* the events of one capture session that are not a prop change, a new
\* session or an explicit clearAmplitudes() call
SessionEvent ==
    \/ sampleAmplitude
    \/ Pause
    \/ Resume
    \/ SettleTimeout
    \/ RecorderStop
    \/ AnalyserSetup
    \/ Frame
    \/ Render
    \/ Resize

\* C2: within one capture session the AmplitudeTimeline is append-only:
\* across every tick, pause, resume, timeout, frame and re-render the
\* earlier timeline (and the snapshot the hook publishes) is a prefix of the
\* later one.
C2_AppendOnly ==
    [][(mediaRecorder # 0 /\ SessionEvent) =>
          /\ IsPrefix(amplitudeDataRef, amplitudeDataRef')
          /\ IsPrefix(amplitudes, amplitudes')]_vars

\* C2 witness: a session that collected two samples, was paused (its timer
\* is stopped) and still holds them
C2_Witness ==
    /\ mediaRecorder # 0
    /\ recState = "paused"
    /\ timers = 0
    /\ Len(amplitudeDataRef) >= 2

\* C3 (as claimed): a non-empty timeline is emptied only by the start of a
\* new capture session (a new MediaRecorder object), apart from an explicit
\* clearAmplitudes() call: not by pause, resume, the session ending or a
\* re-run of the sampling effect.
C3_ResetOnlyOnNewSession ==
    [][(amplitudeDataRef # <<>> /\ amplitudeDataRef' = <<>>
            /\ ~clearAmplitudes) =>
          (mediaRecorder' # mediaRecorder /\ mediaRecorder' # 0)]_vars

\* C4: at most one sampling interval timer is alive, and it is the one the
\* ref holds.
C4_OneSamplingTimer ==
    /\ timers <= 1
    /\ samplingIntervalRef <=> (timers = 1)

\* C4 witness: a timer is alive while the recorder is paused (the pause came
\* before the settle timeout), so the resume event calls startSampling with
\* a timer already active
C4_Witness ==
    /\ comp \in HookComps \cup {"legacy"}
    /\ recState = "paused"
    /\ timers = 1
    /\ samplingIntervalRef

\* C5 (as claimed): in growing mode the logical canvas width never decreases
\* from one draw of a non-empty timeline to the next draw of the same session,
\* as long as the timeline has not been emptied in between (stack canvas in
\* growing mode and RecordingWaveform).
C5_GrowingWidthMonotone ==
    [][(/\ comp \in {"stack", "rw"}
        /\ growWidth
        /\ mediaRecorder # 0
        /\ mediaRecorder' = mediaRecorder
        /\ draws' > 0
        /\ canvas.kind = "data"
        /\ canvas.shown # <<>>
        /\ IsPrefix(canvas.shown, amplitudeDataRef)
        /\ IsPrefix(amplitudeDataRef, amplitudeDataRef')
        /\ canvas'.kind = "data"
        /\ canvas'.shown = amplitudeDataRef') =>
          canvas'.logicalWidth >= canvas.logicalWidth]_vars

\* a step of a growing canvas fed by the hook that ends with a drawing of the
\* current timeline and does not reset the running maximum (the stack canvas
\* paints only when recording or when the timeline is non-empty)
GrowingDraw ==
    /\ comp \in {"stack", "compound"}
    /\ growWidth
    /\ draws' > 0
    /\ (comp = "stack" => (isRecording' \/ Len(amplitudes') > 0))
    /\ canvas'.kind = "data"
    /\ canvas'.shown = amplitudes'
    /\ (Len(amplitudes') > 0 \/ Len(amplitudes) = 0)

C7_FixedModeIndicesValid ==
    (/\ comp = "stack"
     /\ ~growWidth
     /\ draws > 0
     /\ (isRecording \/ Len(amplitudes) > 0)
     /\ canvas.kind = "data") =>
        /\ canvas.bars = canvas.logicalWidth \div totalBarWidth(barConfig)
        /\ \A i \in canvas.idx : 0 <= i /\ i < Len(canvas.shown)

\* C8: after every draw the bitmap is the logical size times the device
\* pixel ratio and the context transform is exactly one scale by that ratio.
C8_BitmapAndTransform ==
    canvas.kind \in {"data", "idle"} =>
        /\ canvas.width = canvas.logicalWidth * dpr
        /\ canvas.height = canvas.logicalHeight * dpr
        /\ canvas.xform = dpr

\* C8 witness: on a display with ratio 2 a timeline of two samples is on the
\* canvas, so the canvas has been resized and scaled several times
C8_Witness ==
    /\ dpr = 2
    /\ canvas.kind = "data"
    /\ Len(canvas.shown) >= 2
    /\ canvas.xform = 2

\* one change seen by a canvas outside unpaused recording
IdleChange ==
    /\ comp \in HookComps
    /\ barConfig' # barConfig
    /\ ~isRecording'
    /\ ~isPaused'

QuietChange ==
    /\ comp \in HookComps
    /\ \/ barConfig' # barConfig
       \/ amplitudes' # amplitudes
       \/ isRecording' # isRecording
       \/ isPaused' # isPaused
    /\ ~(isRecording' /\ ~isPaused')

C10_FinalDatasetKept ==
    [][(mediaRecorder # 0 /\ mediaRecorder' = 0 /\ amplitudeDataRef # <<>>) =>
          /\ amplitudeDataRef' = amplitudeDataRef
          /\ canvas'.kind = "data"
          /\ canvas'.shown = amplitudeDataRef
          /\ draws' >= 1
          /\ rafs' = 0]_vars

\* the Idle state as a canvas fed by the hook sees it: no recorder, no data
IdleState ==
    /\ comp \in HookComps
    /\ mediaRecorder = 0
    /\ amplitudes = <<>>
    /\ ~isRecording
    /\ ~isPaused

\* C11 (as claimed): in the Idle state every timeline canvas shows uniform
\* bars of the minimal height (2 px), one per pitch step, over the full
\* available width.
C11_IdleBarsOnEveryCanvas ==
    IdleState =>
        /\ canvas.kind = "idle"
        /\ canvas.heights = {minBarHeight * 100}
        /\ canvas.bars * totalBarWidth(barConfig) > canvas.logicalWidth
                                                     - totalBarWidth(barConfig)

\* C11 (amended): a draw in the Idle state leaves the context canvas with
\* floor((width + gap) / pitch) and the compound canvas with
\* floor(width / pitch) bars of height 2 px over the container width, the
\* last bar starting less than one pitch before the right edge; the stack
\* canvas never draws idle bars.
C11_IdleBars ==
    /\ (IdleState /\ comp \in {"ctx", "compound"} /\ draws > 0) =>
          /\ canvas.kind = "idle"
          /\ canvas.logicalWidth = container[1]
          /\ canvas.heights = {minBarHeight * 100}
          /\ canvas.bars =
                IF comp = "ctx"
                THEN (container[1] + barConfig.gap) \div totalBarWidth(barConfig)
                ELSE container[1] \div totalBarWidth(barConfig)
          /\ canvas.bars * totalBarWidth(barConfig)
                > container[1] - totalBarWidth(barConfig)
          /\ (canvas.bars - 1) * totalBarWidth(barConfig) + barConfig.width
                <= container[1]
    /\ comp = "stack" => canvas.kind # "idle"

\* C11 witness: after a session the compound canvas is back in the Idle state
\* and has just drawn its idle bars
C11_Witness ==
    /\ IdleState
    /\ comp = "compound"
    /\ sessionCount >= 1
    /\ draws > 0
    /\ canvas.kind = "idle"
    /\ canvas.bars >= 2

\* C12: in RecordingWaveform and in the compound Root (autoScroll at its
\* default) autoScrollEnabled starts true, and after every user scroll event
\* it equals (scrollOffset + viewportWidth) >= (contentWidth - 10).
C12_AutoScrollFlag ==
    /\ (comp \in {"rw", "compound"} => isAutoScrollingRef = TRUE)
    /\ [][(UserScroll /\ comp \in {"rw", "compound"}) =>
            (isAutoScrollingRef' =
               (scrollLeft' + container[1] >= scrollWidth' - 10))]_vars

\* the user has scrolled more than 10px away from the end: disabled
C12_Witness ==
    /\ comp \in {"rw", "compound"}
    /\ ~isAutoScrollingRef
    /\ scrollLeft + container[1] < scrollWidth - 10

\* the user has scrolled away from the end: the flag is off, or, in the stack
\* canvas, which keeps no flag, the view is more than 10px from the end
ScrolledAway ==
    IF hasScrollHandler
    THEN ~isAutoScrollingRef
    ELSE scrollLeft + container[1] < scrollWidth - ScrollThreshold

\* C13: once the user has scrolled away from the end, no draw of
\* RecordingWaveform, of the compound canvas or of the stack canvas moves the
\* view (a step that shrinks the content, where the browser clamps the
\* offset, is left out).
C13_NoScrollWhenDisabled ==
    [][(ScrolledAway /\ ~UserScroll /\ scrollWidth' >= scrollWidth) =>
         scrollLeft' = scrollLeft]_vars

\* the same for RecordingWaveform alone, whose draw reads the flag
C13_RwHonoursFlag ==
    [][(comp = "rw" /\ ScrolledAway /\ ~UserScroll
          /\ scrollWidth' >= scrollWidth) =>
         scrollLeft' = scrollLeft]_vars

\* a step in which the canvas draws (RecordingWaveform draws in its frame
\* loop only; the compound canvas draws in every commit)
ScrollDraw ==
    \/ ScrollFrame
    \/ /\ comp = "compound"
       /\ ScrollStart \/ ScrollTick \/ ScrollPause \/ ScrollResume
            \/ ScrollRender \/ ScrollEnd

\* C14: while autoScrollEnabled is true, after every draw of a growing canvas
\* (RecordingWaveform, compound canvas) whose content is wider than the
\* viewport, scrollOffset = contentWidth - viewportWidth.
C14_RightAlignedAfterDraw ==
    [][(comp \in {"rw", "compound"} /\ ScrollDraw /\ isAutoScrollingRef
          /\ scrollWidth' > container[1]) =>
         scrollLeft' = scrollWidth' - container[1]]_vars

\* the same for RecordingWaveform alone
C14_RwRightAligned ==
    [][(comp = "rw" /\ ScrollDraw /\ isAutoScrollingRef
          /\ scrollWidth' > container[1]) =>
         scrollLeft' = scrollWidth' - container[1]]_vars

\* C15: stopping the sampler or the frame loop a second time changes nothing,
\* and a teardown leaves nothing behind: the clean-up of the sampling effect
\* (run at unmount and when the session handle changes) leaves no sampling
\* timer and, in the legacy recorder and RecordingWaveform, no frame
\* callback; while no recorder is passed there is no sampling timer, no settle
\* timeout and no frame callback of theirs; pause/resume listeners sit on the
\* current recorder only.
C15_TeardownLeavesNothing ==
    /\ LET s1 == stopSampling(samplingIntervalRef, timers)
       IN /\ stopSampling(s1.ref, s1.timers) = s1
          /\ mediaRecorder # 0 => (s1.timers = 0 /\ ~s1.ref)
    /\ LET k1 == CancelFrame(K0)
       IN /\ CancelFrame(k1) = k1
          /\ comp \in {"legacy", "rw"} => (k1.rafs = 0 /\ ~k1.aref)
    /\ listeners \subseteq ({mediaRecorder} \ {0})
    /\ mediaRecorder = 0 =>
         /\ timers = 0 /\ ~samplingIntervalRef /\ ~timeoutId
         /\ comp \in {"legacy", "rw"} => (rafs = 0 /\ ~animationRef)

\* a legacy session that sampled and drew is over: its timeline is still
\* held, and no timer, timeout, frame callback or listener is left
C15_Witness ==
    /\ comp = "legacy"
    /\ mediaRecorder = 0
    /\ sessionCount > 0
    /\ Len(amplitudeDataRef) > 0
    /\ timers = 0 /\ rafs = 0 /\ ~timeoutId /\ listeners = {}

\* C16: no sample is appended while the settle timeout is still pending, and
\* a tick that finds the analyser or its buffer missing appends nothing and
\* leaves the timeline, the snapshot and the canvas as they were.
C16_SettleDelayAndGuard ==
    /\ [][Len(amplitudeDataRef') > Len(amplitudeDataRef) => ~timeoutId]_vars
    /\ [][(sampleAmplitude /\ ~analyserReady) =>
            UNCHANGED <<amplitudeDataRef, amplitudes, canvas>>]_vars

\* the second half alone: the guard of sampleAmplitude
C16_GuardedTick ==
    [][(sampleAmplitude /\ ~analyserReady) =>
         UNCHANGED <<amplitudeDataRef, amplitudes, canvas>>]_vars

\* the first half where no resume listener exists (RecordingWaveform)
C16_RwSettleDelay ==
    [][(comp = "rw" /\ Len(amplitudeDataRef') > Len(amplitudeDataRef)) =>
         ~timeoutId]_vars

\* C17: whenever the blob is null, AudioWaveform holds no peaks and no error,
\* whatever happened to an earlier blob, and a step that ends with a null
\* blob starts no decode.
C17_NoSourceCleared ==
    /\ [](blob = 0 => (peaks = 0 /\ ~error))
    /\ [][blob' = 0 => Len(decodes') = Len(decodes)]_vars

\* the same for a mounted instance, that is, as long as no decode has failed
\* since the last mount
C17_MountedNoSourceCleared ==
    /\ [](blob = 0 /\ phase = "mounted" => (peaks = 0 /\ ~error))
    /\ [][blob' = 0 => Len(decodes') = Len(decodes)]_vars

\* the blob became null while a decode was in flight, and the decode has
\* resolved since
C17_LateResolveIgnored ==
    /\ blob = 0
    /\ phase = "mounted"
    /\ peaks = 0
    /\ \E i \in 1..Len(decodes) : decodes[i].settled /\ decodes[i].cancelled

\* a decode that the component still waits for is rejected
LiveReject == \E i \in 1..Len(decodes) : AwReject(i) /\ ~decodes[i].cancelled

\* C18: a failed decode of the current blob puts AudioWaveform into the
\* error state, which the render throws; no decode starts while the error is
\* held and the blob stays the same, unless the host resets the boundary;
\* and when a different blob is supplied, the error is cleared and a decode
\* of that blob starts.
C18_FailureSurfacedAndCleared ==
    /\ [][LiveReject => (error' /\ phase' = "fallback")]_vars
    /\ [][(error /\ blob' = blob /\ ~AwBoundaryReset) =>
            Len(decodes') = Len(decodes)]_vars
    /\ [][(error /\ blob' \notin {blob, 0}) =>
            /\ ~error'
            /\ Len(decodes') = Len(decodes) + 1
            /\ decodes'[Len(decodes')].blob = blob']_vars

\* what holds of it: the failure is surfaced, nothing is retried, and a reset
\* of the boundary mounts an instance without error that decodes the blob it
\* is given
C18_SurfacedNoRetry ==
    /\ [][LiveReject => (error' /\ phase' = "fallback")]_vars
    /\ [][(error /\ blob' = blob /\ ~AwBoundaryReset) =>
            Len(decodes') = Len(decodes)]_vars
    /\ [][(AwBoundaryReset /\ blob # 0) =>
            /\ ~error'
            /\ Len(decodes') = Len(decodes) + 1
            /\ decodes'[Len(decodes')].blob = blob]_vars

\* C19: while a mounted AudioWaveform is given the same blob, however often
\* it renders or its effect is cleaned up and run again, decodeAudioBlob is
\* called at most once for that blob.  (The suspense variant leaves this to
\* getAudioData of ./audio-decoder.)
C19_DecodedAtMostOnce ==
    /\ callsSame <= 1
    /\ callsSame = Cardinality({i \in 1..Len(decodes) :
                                  /\ decodes[i].blob = blob
                                  /\ i > Len(decodes) - callsSame})

\* the effect has run again with the blob it already decodes: the first call
\* is still the only one
C19_Witness ==
    /\ phase = "mounted"
    /\ blob # 0
    /\ blobRef = blob
    /\ callsSame = 1
    /\ liveRun = 0
    /\ ~decodes[Len(decodes)].settled
    /\ decodes[Len(decodes)].blob = blob

BucketOf(i) ==
    {j \in 0..(Len(dec.samples) - 1) :
        /\ bucketStart(Len(dec.samples), dec.n, i) <= j
        /\ j < bucketEnd(Len(dec.samples), dec.n, i)}

\* C21: the downsampler cuts the samples into exactly sampleCount contiguous
\* buckets of floor(total / sampleCount) samples, the last one taking the
\* remainder too, so that every sample index lies in exactly one bucket; and
\* each output value is the largest absolute amplitude of its bucket divided
\* by the largest of all (num / den = peak / max, cross-multiplied).
C21_BucketsPartitionAndPeaks ==
    dec.done =>
      LET total == Len(dec.samples)
          size == total \div dec.n
          big == globalMax([i \in 1..total |-> Abs(dec.samples[i])])
      IN /\ Len(dec.out) = dec.n
         /\ \A j \in 0..(total - 1) :
              Cardinality({i \in 0..(dec.n - 1) : j \in BucketOf(i)}) = 1
         /\ \A i \in 0..(dec.n - 1) :
              /\ BucketOf(i) = {j \in 0..(total - 1) :
                                  /\ i * size <= j
                                  /\ i < dec.n - 1 => j < (i + 1) * size}
              /\ i < dec.n - 1 => Cardinality(BucketOf(i)) = size
              /\ i = dec.n - 1 =>
                   Cardinality(BucketOf(i)) = size + (total % dec.n)
              /\ LET peak == IF BucketOf(i) = {} THEN 0
                             ELSE CHOOSE a \in {Abs(dec.samples[j + 1]) :
                                                  j \in BucketOf(i)} :
                                    \A j \in BucketOf(i) :
                                        Abs(dec.samples[j + 1]) <= a
                 IN dec.out[i + 1].num * big = peak * dec.out[i + 1].den

\* a signal that does not divide evenly: the last bucket is longer than the
\* others and holds the loudest sample
C21_Witness ==
    /\ dec.done
    /\ dec.n > 1
    /\ Len(dec.samples) \div dec.n > 0
    /\ Len(dec.samples) % dec.n > 0
    /\ Abs(dec.samples[Len(dec.samples)]) = MaxAmp
    /\ dec.out[1].num > 0
    /\ dec.out[1].num < dec.out[1].den

\* C22: for every duration > 0 and logicalWidth > 0, xToTime(timeToX(t)) = t
\* for t in [0, duration]; a time outside is clamped to 0 or duration, a
\* position outside [0, logicalWidth] to 0 or logicalWidth; and with
\* duration 120 and width 600 a click at x = 300 reports 60.
C22_SeekRoundTrip ==
    /\ FracEq(xToTime(Frac(300, 1), 120, 600), Frac(60, 1))
    /\ seek.stage \in {"drawn", "sought"} =>
         /\ FracLe(Frac(0, 1), seek.x)
         /\ FracLe(seek.x, Frac(seek.logicalWidth, 1))
    /\ seek.stage = "sought" =>
         /\ seek.t.num < 0 => FracEq(seek.time, Frac(0, 1))
         /\ seek.t.num > seek.duration * seek.t.den =>
              FracEq(seek.time, Frac(seek.duration, 1))
         /\ (seek.t.num >= 0 /\ seek.t.num <= seek.duration * seek.t.den) =>
              FracEq(seek.time, seek.t)
    /\ seek.stage = "clicked" =>
         /\ seek.x.num < 0 => FracEq(seek.time, Frac(0, 1))
         /\ seek.x.num > seek.logicalWidth =>
              FracEq(seek.time, Frac(seek.duration, 1))
         /\ (seek.x.num >= 0 /\ seek.x.num <= seek.logicalWidth) =>
              FracEq(seek.time,
                     Frac(seek.x.num * seek.duration, seek.logicalWidth))

\* a time strictly inside the duration, not a whole unit, on a canvas whose
\* width differs from the duration, has gone to x and back
C22_Witness ==
    /\ seek.stage = "sought"
    /\ seek.duration # seek.logicalWidth
    /\ seek.t.num % 2 = 1
    /\ seek.t.num > 0
    /\ seek.t.num < 2 * seek.duration
    /\ FracEq(seek.time, seek.t)
    /\ ~FracEq(seek.x, seek.t)

\* C23: every value held in the AmplitudeTimeline lies in [0,1] (here: its
\* square does), and the value appended last is min(1, 2 * rms) of the bytes
\* just read: 1 when 4 * sum >= bufferLength * 128^2, else the root of
\* 4 * sum / (bufferLength * 128^2).
C23_AmplitudeInUnitRange ==
    /\ \A i \in 1..Len(amp.timeline) :
         /\ amp.timeline[i].den > 0
         /\ 0 <= amp.timeline[i].num
         /\ amp.timeline[i].num <= amp.timeline[i].den
    /\ amp.timeline # <<>> =>
         LET v == amp.timeline[Len(amp.timeline)]
             n == Len(amp.dataArray)
             sum == sumSquares(amp.dataArray)
         IN /\ 4 * sum >= n * 16384 => FracEq(v, Frac(1, 1))
            /\ 4 * sum < n * 16384 => FracEq(v, Frac(4 * sum, n * 16384))

\* a loud buffer (clamped to 1) was sampled after a quiet one (below 1,
\* above 0)
C23_Witness ==
    /\ Len(amp.timeline) = 2
    /\ amp.timeline[1].num > 0
    /\ amp.timeline[1].num < amp.timeline[1].den
    /\ amp.timeline[2] = Frac(1, 1)
    /\ 4 * sumSquares(amp.dataArray) > Len(amp.dataArray) * 16384

\* C24 (as claimed): no draw blocks: for every bar geometry the components
\* accept and every container size a draw ends after finitely many bar
\* iterations, and the pitch the renderer works with is always > 0.
C24_EveryDrawEnds ==
    /\ drawCall.stage # "hung"
    /\ drawCall.stage = "drawn" => drawCall.pitch > 0

\* what does hold: the growing renderers draw one bar per sample, whatever
\* the pitch, and a fixed renderer with a pitch > 0 draws at most
\* width / pitch bars
C24_BoundedLoops ==
    drawCall.stage = "drawn" =>
        /\ drawCall.renderer \in {"stack", "compound"} =>
              drawCall.slots = drawCall.len
        /\ (drawCall.renderer \in {"stackFixed", "live"}
                /\ drawCall.pitch > 0) =>
              drawCall.slots * drawCall.pitch <= drawCall.cw

\* C27 (as claimed): in fixed mode with more data than slots, slot i shows
\* source[floor(i / slotCount * sourceLength)], for every slot i.
C27_NearestNeighbourIndex ==
    (/\ drawCall.stage = "drawn"
     /\ drawCall.renderer \in {"stackFixed", "live"}
     /\ drawCall.slots >= 1
     /\ drawCall.len > drawCall.slots) =>
        \A j \in 1..drawCall.slots :
            drawCall.bars[j].src
                = ((j - 1) * drawCall.len) \div drawCall.slots

\* what does hold: the index shown is the claimed one or the one before it
C27_IndexWithinOne ==
    (/\ drawCall.stage = "drawn"
     /\ drawCall.renderer \in {"stackFixed", "live"}
     /\ drawCall.slots >= 1
     /\ drawCall.len > drawCall.slots) =>
        \A j \in 1..drawCall.slots :
            LET exact == ((j - 1) * drawCall.len) \div drawCall.slots
            IN  drawCall.bars[j].src \in {exact - 1, exact}

\* C28: every bar drawn for slot i with value v has x = i * pitch,
\* height = max(2, v * availableHeight * heightScale) and
\* y = (availableHeight - height) / 2, and the drawable region has been
\* cleared before the bars of the draw.
C28_BarGeometry ==
    drawCall.stage = "drawn" =>
        /\ drawCall.cleared = drawCall.logical
        /\ \A j \in 1..drawCall.slots :
              LET b == drawCall.bars[j]
                  v2 == sampleTwice(drawCall, b.src)
                  scale == IF drawCall.renderer \in {"stack", "stackFixed"}
                           THEN 95 ELSE 90
                  raw == v2 * drawCall.height * scale
              IN  /\ b.slot = j - 1
                  /\ b.x = (j - 1) * (resolvedBarWidth(drawCall)
                                        + resolvedGap(drawCall))
                  /\ b.h200 = (IF raw > 400 THEN raw ELSE 400)
                  /\ 2 * b.y400 = 400 * drawCall.height - 2 * b.h200

\* bars of the minimal height and taller ones have been drawn with a gap
C28_Witness ==
    /\ drawCall.stage = "drawn"
    /\ drawCall.renderer \in {"stack", "compound"}
    /\ resolvedGap(drawCall) > 0
    /\ drawCall.slots >= 3
    /\ \E j, k \in 1..drawCall.slots :
          /\ drawCall.bars[j].h200 = 400
          /\ drawCall.bars[k].h200 > 400
          /\ drawCall.bars[k].x > 0

\* the RecorderState the flags (isRecording, isPaused) stand for; Idle and
\* Stopped have the same flags
RecorderState(r) ==
    IF r.isRecording THEN (IF r.isPaused THEN "Paused" ELSE "Recording")
    ELSE (IF r.isPaused THEN "PausedOnly" ELSE "Idle")

\* the moves of the claim: from, to, and the operation that makes the move
RecorderMoves ==
    {<<"Idle", "Recording", "granted">>,
     <<"Recording", "Paused", "pause">>,
     <<"Paused", "Recording", "resume">>,
     <<"Recording", "Idle", "onstop">>, <<"Recording", "Idle", "onerror">>,
     <<"Paused", "Idle", "onstop">>, <<"Paused", "Idle", "onerror">>}

\* pauseRecording, resumeRecording, stopRecording called in a state where
\* they do not apply leave the hook as it is
RecorderNoOps ==
    /\ (rec'.last = "pause" /\ RecorderState(rec) # "Recording")
          => (rec'.recorders = rec.recorders
                /\ RecorderState(rec') = RecorderState(rec))
    /\ (rec'.last = "resume" /\ RecorderState(rec) # "Paused")
          => (rec'.recorders = rec.recorders
                /\ RecorderState(rec') = RecorderState(rec))
    /\ (rec'.last = "stop" /\ RecorderState(rec) = "Idle")
          => (rec'.recorders = rec.recorders
                /\ RecorderState(rec') = RecorderState(rec))

\* C25 (as claimed): the flags (isRecording, isPaused) move only along
\* Idle -> Recording (a start that succeeded), Recording -> Paused
\* (pauseRecording), Paused -> Recording (resumeRecording) and
\* Recording/Paused -> Stopped (recorder stop or error); pauseRecording,
\* resumeRecording and stopRecording are no-ops in every other state; and
\* isPaused implies isRecording in every reachable state.
C25_RecorderStateMachine ==
    /\ [](rec.isPaused => rec.isRecording)
    /\ [][RecorderNoOps]_vars
    /\ [][RecorderState(rec') # RecorderState(rec)
            => <<RecorderState(rec), RecorderState(rec'), rec'.last>>
                  \in RecorderMoves]_vars

\* what does hold: the flags are well formed, the three callbacks are
\* no-ops where they do not apply, and the flags take no other step than
\* the four edges, whichever operation makes it
C25_FlagEdges ==
    /\ [](rec.isPaused => rec.isRecording)
    /\ [][RecorderNoOps]_vars
    /\ [][RecorderState(rec') # RecorderState(rec)
            => <<RecorderState(rec), RecorderState(rec')>>
                  \in {<<m[1], m[2]>> : m \in RecorderMoves}]_vars

\* a clear whose events have all been delivered: no stop event it waits for
\* is queued, and nothing else has happened since
ClearSettled ==
    /\ rec.cleared.armed
    /\ rec.cleared.wait # 0 => ~rec.recorders[rec.cleared.wait].stopQueued

\* C26 (as claimed): after clearRecording() in any state, including an
\* active or paused recording, once the events it triggers have been
\* processed recordingBlob is null, recordingTime is 0 and error is null.
C26_ClearResetsAll ==
    ClearSettled =>
        rec.recordingBlob = 0 /\ rec.recordingTime = 0 /\ ~rec.error

\* what does hold: a clear with no recorder held resets the three at once
C26_ClearWhenIdle ==
    (ClearSettled /\ rec.cleared.wait = 0 /\ ~rec.isRecording) =>
        rec.recordingBlob = 0 /\ rec.recordingTime = 0 /\ ~rec.error

\* the latest call of draw has drawn the data as it is at the present size
LoopRedrawn ==
    /\ live'.lastFrame = "drew"
    /\ live'.drawn = [size |-> live.size, data |-> live.data]

\* C29 (as claimed): a pause event suspends only the sampling timer: the
\* frame loop stays scheduled on every frame during the pause and keeps
\* redrawing the frozen timeline, and after resume the frames draw the new
\* samples without the loop having been restarted.
C29_LoopRunsThroughPause ==
    /\ [][(LoopPause \/ LoopResume) => live'.rafs = live.rafs]_vars
    /\ [][LoopPause => ~live'.timer]_vars
    /\ [][(LoopFrame /\ live.comp \in {"legacy", "liveCanvas"}) =>
            (live'.rafs = live.rafs /\ LoopRedrawn)]_vars

\* what does hold: the loop is scheduled on through pause and resume, the
\* sampling timer is off after a pause, and every frame outside a pause draws
C29_LoopKeptScheduled ==
    /\ [][(LoopPause \/ LoopResume) => live'.rafs = live.rafs]_vars
    /\ [][LoopPause => ~live'.timer]_vars
    /\ [][(LoopFrame /\ live.comp \in {"legacy", "liveCanvas"}) =>
            live'.rafs = live.rafs]_vars
    /\ [][(LoopFrame /\ live.comp \in {"legacy", "liveCanvas"}
             /\ live.recState = "recording") => LoopRedrawn]_vars

\* C30 (as claimed): when the analysis node or its buffer is not ready as a
\* frame fires, LiveRecorder skips the frame and draws on a later one: its
\* frame loop is not abandoned while the session is mounted (once the 50 ms
\* timeout has started it, a frame is always asked for).
C30_LoopNotAbandoned ==
    (live.comp = "liveRecorder" /\ live.session /\ ~live.timeoutId) =>
        live.rafs >= 1

\* what does hold: a draw made while paused or with the analyser ready asks
\* for the next frame
C30_LoopKeptWhenReady ==
    [][(live.comp = "liveRecorder" /\ (LoopFrame \/ LoopSettle)
          /\ (live.isPaused \/ live.analyserReady)) =>
         live'.rafs >= 1]_vars


sessionChunks(r, id) == [k \in 1..r.recorders[id].delivered |-> <<id, k>>]

\* C32 (as claimed): the stop event of each session stores a blob made of
\* exactly the chunks that session delivered, in order, and leaves
\* mediaRecorder null and isRecording and isPaused false; onRecordingComplete
\* is called exactly once for each session that has stopped.
C32_StopYieldsSessionBlob ==
    /\ [][\A id \in 1..MaxRecorders :
            (rec.stage = "hook" /\ OnStop(id)) =>
                /\ rec'.recordingBlob = id
                /\ rec'.blobParts = sessionChunks(rec, id)
                /\ rec'.mediaRecorder = 0
                /\ ~rec'.isRecording
                /\ ~rec'.isPaused]_vars
    /\ [](rec.stage # "none" =>
            \A id \in 1..Len(rec.recorders) :
                /\ rec.recorders[id].completed <= 1
                /\ (rec.recorders[id].state = "inactive"
                    /\ ~rec.recorders[id].stopQueued)
                   => rec.recorders[id].completed = 1)

C38_OneActiveRecorder ==
    rec.stage = "hook" =>
        /\ Cardinality({id \in 1..Len(rec.recorders) :
                          rec.recorders[id].state # "inactive"}) <= 1
        /\ Cardinality({id \in 1..Len(rec.recorders) :
                          rec.recorders[id].tracksLive}) <= 1
        /\ \A i, j \in 1..Len(rec.blobParts) :
              rec.blobParts[i][1] = rec.blobParts[j][1]

\* C39 (as claimed): once no session is on (isRecording false, or the hook
\* unmounted), no start is in progress and no stop event is still queued, no
\* stream handed to the hook has live tracks.
C39_TracksReleased ==
    (/\ rec.stage # "none"
     /\ rec.stage = "hook" => ~rec.isRecording
     /\ rec.pending = 0
     /\ \A id \in 1..Len(rec.recorders) : ~rec.recorders[id].stopQueued)
    => \A id \in 1..Len(rec.recorders) : ~rec.recorders[id].tracksLive

\* what does hold: a stop event and the unmount stop the tracks of the one
\* stream streamRef holds at that moment
C39_RefStreamReleased ==
    [][((Unmount \/ \E id \in 1..MaxRecorders : OnStop(id))
        /\ rec.streamRef # 0)
       => ~rec'.recorders[rec.streamRef].tracksLive]_vars

\* decode i no longer belongs to the effect: its run has been cleaned up, or
\* the blob prop is no longer the blob it decodes
decodeStale(i) == i # liveRun \/ decodes[i].blob # blob

\* C34: a decode that settles after its blob prop was replaced or its effect
\* was cleaned up writes neither peaks nor error, and every value written to
\* peaks is the decode result of the blob that is current at the write.
C34_StaleDecodeWritesNothing ==
    /\ [][\A i \in 1..MaxDecodes :
            ((i <= Len(decodes)) /\ decodeStale(i)
             /\ (AwResolve(i) \/ AwReject(i)))
            => (peaks' = peaks /\ error' = error)]_vars
    /\ [][(peaks' # peaks /\ peaks' # 0) =>
            (phase = "mounted" /\ blob' # 0 /\ peaks' = blob')]_vars

\* a decode of a replaced blob has resolved while the decode of the current
\* blob is still pending, and the peaks are not those of the replaced blob
C34_Witness ==
    /\ phase = "mounted"
    /\ blob # 0
    /\ liveRun # 0
    /\ \E i \in 1..Len(decodes) :
          /\ decodes[i].settled
          /\ decodes[i].blob # blob
          /\ decodes[i].cancelled
          /\ peaks # decodes[i].blob

\* C35 (as claimed): whatever the sequence of prop changes and effect
\* re-runs, a mounted AudioWaveform whose blob is b and whose decodes all
\* succeed ends up with the peaks of b, unless the blob is replaced first
\* or a decode fails.
C35_PeaksEventuallyDecoded ==
    \A b \in Blobs :
        (blob = b /\ phase = "mounted")
            ~> (peaks = b \/ blob # b \/ phase # "mounted")

SoundGeometry ==
    resolvedBarWidth(drawCall) > 0 /\ resolvedGap(drawCall) >= 0

\* bar b lies inside the logical canvas of the draw
BarInside(b) ==
    /\ 0 <= b.x
    /\ b.x + resolvedBarWidth(drawCall) <= drawCall.logical[1]
    /\ 0 <= b.y400
    /\ b.y400 + 2 * b.h200 <= 400 * drawCall.logical[2]

\* C37 (as claimed): with a sound geometry every bar drawn lies inside the
\* logical canvas rectangle, in the growing, fixed, idle and frequency views,
\* for amplitudes in [0, 1] and frequency bytes in 0..255.
C37_BarsInsideCanvas ==
    (drawCall.stage = "drawn" /\ SoundGeometry) =>
        \A j \in 1..drawCall.slots : BarInside(drawCall.bars[j])

\* what does hold: the bars of the timeline views and of the idle view lie
\* inside the canvas, and so do the bars of the frequency view in x
C37_TimelineBarsInside ==
    (drawCall.stage = "drawn" /\ SoundGeometry) =>
        \A j \in 1..drawCall.slots :
            /\ drawCall.renderer # "live" => BarInside(drawCall.bars[j])
            /\ 0 <= drawCall.bars[j].x
            /\ drawCall.bars[j].x + resolvedBarWidth(drawCall)
                  <= drawCall.logical[1]

====
